---------------------------- MODULE Spec2Model ----------------------------
(***************************************************************************)
(* Model of the fantasy sit/start scoring pipeline (ff-scoring.mjs), the   *)
(* odds helpers it imports (calculateScriptLean, getGameContext,           *)
(* getWeekLines' implied totals) and the ff-run handler that composes them.*)
(*                                                                         *)
(* Numbers.  JavaScript numbers are modelled as exact fixed-point integers:*)
(*   - prop lines, probabilities and scoring rules: hundredths             *)
(*       (pass_yds 300 is 30000, probability 0.20 is 20, passYards 0.04    *)
(*       is 4);                                                            *)
(*   - spread and total: halves (spread -4.5 is -9);                       *)
(*   - implied totals: quarters (homeIT 24 is 96);                         *)
(*   - efp: 1 point is 3000000 units, so that every product of a prop and  *)
(*       a rule, every ceiling bonus (three factors in hundredths) and     *)
(*       every twelfth of a point of the fallback is exact;                *)
(*   - score: 1.0 is 2800 units, so that 0.35*0.6, 0.20*0.3 and            *)
(*       0.25*(it-21)/7 with it in quarters are exact.                     *)
(* The only value that is not rational is the z-score (a square root): it  *)
(* is the real value truncated toward zero to two decimals.                *)
(*                                                                         *)
(* null / undefined / {} are modelled as the empty tuple <<>>, a present   *)
(* nullable value v as <<v>>, an object as a function on its keys.         *)
(***************************************************************************)
EXTENDS Integers, Sequences, FiniteSets, TLC

VARIABLES
    pc,             \* position of the ff-run handler in step 8 and after
    roster,         \* getTeamRoster's result
    lines,          \* getWeekLines' result
    allProps,       \* getPlayerProps' result: player name -> entry
    scoringRules,   \* getLeagueSettings' scoring rules
    positionCounts, \* getLeagueSettings' slot requirements
    scoredPlayers,  \* the handler's scoredPlayers array
    idx,            \* index of the next element the current loop visits
    tieredPlayers,  \* assignTiers' result
    starters,       \* fillLineup's result
    bench,
    flexOptions,    \* tryFlexSwaps' result
    explain,        \* the request's explain parameter
    call,           \* a direct call of one exported function: its arguments
    ret,            \* ... and what it returned
    now,            \* Date.now(), in minutes
    authStore,      \* the Blobs store "auth": the content of yahoo.json
    browserCookies, \* the ff_* token cookies each browser holds
    cacheStore,     \* the Blobs store "cache": key -> data and metadata
    cacheLog        \* history: key -> the value last cached and when

vars == <<pc, roster, lines, allProps, scoringRules, positionCounts,
          scoredPlayers, idx, tieredPlayers, starters, bench, flexOptions,
          explain, call, ret, now, authStore, browserCookies, cacheStore,
          cacheLog>>

serviceVars == <<now, authStore, browserCookies, cacheStore, cacheLog>>

pipelineVars == <<pc, roster, lines, allProps, scoringRules, positionCounts,
                  scoredPlayers, idx, tieredPlayers, starters, bench,
                  flexOptions, explain>>

---------------------------------------------------------------------------
(* Units and JavaScript value helpers *)

Null == <<>>
Some(x) == <<x>>
\* JavaScript truthiness of a nullable number: null and 0 are falsy.
TruthyNum(x) == x # Null /\ x[1] # 0
\* A relational operator coerces null to 0.
NumOf(x) == IF x = Null THEN 0 ELSE x[1]
\* props.k is truthy: the key is there and its number is not 0.
HasProp(props, k) == k \in DOMAIN props /\ props[k] # 0
\* Object.keys(o).length === 0
IsEmptyObject(o) == DOMAIN o = {}

\* n/d points in efp units
EfpPts(n, d) == (n * 3000000) \div d
\* n/d in score units
Sc(n, d) == (n * 2800) \div d

Abs(x) == IF x < 0 THEN -x ELSE x
Max(a, b) == IF a >= b THEN a ELSE b
Min(a, b) == IF a <= b THEN a ELSE b

RECURSIVE GCD(_, _)
GCD(a, b) == IF b = 0 THEN a ELSE GCD(b, a % b)

RECURSIVE SumSeq(_)
SumSeq(s) == IF s = <<>> THEN 0 ELSE Head(s) + SumSeq(Tail(s))

RECURSIVE GCDSeq(_)
GCDSeq(s) == IF s = <<>> THEN 0 ELSE GCD(Abs(Head(s)), GCDSeq(Tail(s)))

RECURSIVE SqrtBetween(_, _, _)
SqrtBetween(x, lo, hi) ==
    IF lo = hi THEN lo
    ELSE LET mid == (lo + hi + 1) \div 2
         IN  IF mid * mid <= x THEN SqrtBetween(x, mid, hi)
             ELSE SqrtBetween(x, lo, mid - 1)
\* floor of the square root (Math.sqrt up to the model's precision)
ISqrt(x) == SqrtBetween(x, 0, 46340)

---------------------------------------------------------------------------
(* ff-scoring.mjs: lookup tables *)

TIER_THRESHOLDS ==
    [S |-> Sc(12, 10), A |-> Sc(6, 10), B |-> Sc(-2, 10), C |-> Sc(-8, 10),
     D |-> Sc(-999, 1)]

\* mutant of CEILING_WEIGHTS: the TE and WR weights exchanged
CEILING_WEIGHTS_Swapped ==
    ("RB" :> 80) @@ ("TE" :> 35) @@ ("WR" :> 60) @@ ("QB" :> 0) @@ ("K" :> 0)
    @@ ("DEF" :> 0)

\* weights in hundredths; a position that is no key reads as undefined
CEILING_WEIGHTS ==
    ("RB" :> 80) @@ ("TE" :> 60) @@ ("WR" :> 35) @@ ("QB" :> 0) @@ ("K" :> 0)
    @@ ("DEF" :> 0)

FALLBACK_BASELINES ==
    ("QB" :> 15) @@ ("RB" :> 10) @@ ("WR" :> 8) @@ ("TE" :> 6) @@ ("K" :> 8)
    @@ ("DEF" :> 8)

---------------------------------------------------------------------------
(* ff-odds: calculateScriptLean, getGameContext, implied totals *)

\* getWeekLines: implied totals from a line's spread and total (both nullable)
ImpliedTotals(spread, total) ==
    IF TruthyNum(spread) /\ TruthyNum(total)
    THEN Some([homeIT |-> total[1] - spread[1], awayIT |-> total[1] + spread[1]])
    ELSE Null

\* getWeekLines: one normalised game line
GameLine(home, away, spread, total) ==
    [home_team |-> home, away_team |-> away, spread |-> spread, total |-> total,
     implied_totals |-> ImpliedTotals(spread, total)]

\* threshold in halves of a point
calculateScriptLean(context, team, threshold) ==
    IF ~TruthyNum(context.spread) \/ context.implied_totals = Null
    THEN [passLean |-> 0, runLean |-> 0]
    ELSE LET isHome == team = context.home_team
             teamSpread == IF isHome THEN context.spread[1] ELSE -context.spread[1]
         IN  [passLean |-> IF teamSpread >= threshold THEN 1 ELSE 0,
              runLean |-> IF teamSpread <= -threshold THEN 1 ELSE 0]

RECURSIVE getGameContext(_, _)
getGameContext(ls, team) ==
    IF ls = <<>> THEN Null
    ELSE IF Head(ls).home_team = team \/ Head(ls).away_team = team
         THEN Some(Head(ls))
         ELSE getGameContext(Tail(ls), team)

---------------------------------------------------------------------------
(* ff-scoring.mjs: the estimator *)

IsPassCatcher(position) == position = "WR" \/ position = "TE"

\* mutant of TdValue: the rushing value for every position
TdValue_AlwaysRush(rules, position) == rules.rushTD

\* the tdValue both the estimator and the ceiling bonus pick
TdValue(rules, position) ==
    IF IsPassCatcher(position) THEN rules.recTD ELSE rules.rushTD

\* teamContext is Null or Some(game line)
applyFallback(position, teamContext, rules) ==
    LET baseline == IF position \in DOMAIN FALLBACK_BASELINES
                    THEN FALLBACK_BASELINES[position] ELSE 5
    IN  IF teamContext = Null \/ teamContext[1].implied_totals = Null
        THEN EfpPts(baseline, 1)
        ELSE LET ctx == teamContext[1]
                 it == ctx.implied_totals[1].homeIT
                 spread == NumOf(ctx.spread)
                 \* (it - 21) / 3 with it in quarters: (it - 84) twelfths
                 itBonus == Max(0, EfpPts(it - 84, 12))
                 scriptBonus ==
                     IF position = "QB"
                     THEN (IF spread < 0 THEN EfpPts(1, 1) ELSE 0)
                     ELSE IF position = "RB"
                     THEN (IF spread <= -9 THEN EfpPts(3, 2) ELSE 0)
                     ELSE IF IsPassCatcher(position)
                     THEN (IF spread >= 9 THEN EfpPts(1, 1) ELSE 0)
                     ELSE 0
             IN  EfpPts(baseline, 1) + itBonus + scriptBonus

\* one "if (props.k) efp += props.k * scoringRules.r" (hundredths x hundredths)
PropTerm(props, k, rules, r) ==
    IF HasProp(props, k) THEN props[k] * rules[r] * 300 ELSE 0

expectedFantasyPoints(props, rules, position, teamContext) ==
    IF IsEmptyObject(props)
    THEN applyFallback(position, teamContext, rules)
    ELSE PropTerm(props, "pass_yds", rules, "passYards")
         + PropTerm(props, "pass_tds", rules, "passTD")
         + PropTerm(props, "interceptions", rules, "passInt")
         + PropTerm(props, "rush_yds", rules, "rushYards")
         + PropTerm(props, "rec_yds", rules, "recYards")
         + PropTerm(props, "receptions", rules, "reception")
         + (IF HasProp(props, "anytime_td_prob")
            THEN props["anytime_td_prob"] * TdValue(rules, position) * 300
            ELSE 0)

\* baseEFP is not read by the code
applyMultiTDBonus(baseEFP, props, rules, position) ==
    LET weight == IF position \in DOMAIN CEILING_WEIGHTS
                  THEN CEILING_WEIGHTS[position] ELSE 0
    IN  IF weight = 0 \/ ~HasProp(props, "two_plus_td_prob")
        THEN 0
        ELSE props["two_plus_td_prob"] * TdValue(rules, position) * weight * 3

---------------------------------------------------------------------------
(* ff-scoring.mjs: the composite score *)

(* JavaScript numbers are IEEE 754 doubles.  Where the code compares a      *)
(* computed double with 0 exactly (stdDev === 0), the rounding of the sum  *)
(* and of the mean decides the outcome, so these few operations are        *)
(* modelled bit for bit: a non-negative integer is a sequence of BigLimbs  *)
(* limbs of LimbBits bits each, the least significant first.               *)

\* significant bits of a double
DoublePrecision == 53

LimbBits == 15

BigLimbs == 6

LimbBase == 2 ^ LimbBits

\* n < 2^31
BigOf(n) ==
    <<n % LimbBase, (n \div LimbBase) % LimbBase, n \div (LimbBase * LimbBase)>>
    \o [i \in 1..(BigLimbs - 3) |-> 0]

Limb(a, i) == IF i >= 1 /\ i <= BigLimbs THEN a[i] ELSE 0

ShiftLeft(a, k) ==
    LET q == k \div LimbBits
        s == k % LimbBits
    IN  SubSeq([i \in 1..BigLimbs |->
                   ((Limb(a, i - q) * (2 ^ s)) % LimbBase)
                   + ((Limb(a, i - q - 1) * (2 ^ s)) \div LimbBase)],
               1, BigLimbs)

\* the number of bits of a limb's value
BitLength(x) == IF x = 0 THEN 0 ELSE CHOOSE b \in 1..LimbBits : 2 ^ (b - 1) <= x /\ x < 2 ^ b

\* the position of the highest 1 bit, 0 for zero
TopBit(a) ==
    LET used == { i \in 1..BigLimbs : a[i] # 0 }
    IN  IF used = {} THEN 0
        ELSE LET i == CHOOSE x \in used : \A y \in used : y <= x
             IN  LimbBits * (i - 1) + BitLength(a[i])

RECURSIVE BigAddFrom(_, _, _, _)
BigAddFrom(a, b, i, carry) ==
    IF i > Len(a) THEN <<>>
    ELSE LET t == a[i] + b[i] + carry
         IN  <<t % LimbBase>> \o BigAddFrom(a, b, i + 1, t \div LimbBase)

BigAdd(a, b) == BigAddFrom(a, b, 1, 0)

\* -1, 0 or 1 as a is below, equal to or above b
BigCompare(a, b) ==
    LET differ == { i \in 1..BigLimbs : a[i] # b[i] }
    IN  IF differ = {} THEN 0
        ELSE LET i == CHOOSE x \in differ : \A y \in differ : y <= x
             IN  IF a[i] > b[i] THEN 1 ELSE -1

\* long division of the limbs i and above of a by n <= 2^16: the quotient's
\* limbs i and above, and the remainder carried to limb i - 1
RECURSIVE BigDivFrom(_, _, _)
BigDivFrom(a, n, i) ==
    IF i > Len(a) THEN [q |-> <<>>, r |-> 0]
    ELSE LET above == BigDivFrom(a, n, i + 1)
             cur == above.r * LimbBase + a[i]
         IN  [q |-> <<cur \div n>> \o above.q, r |-> cur % n]

\* a / (n1 * n2): quotient, and remainder below n1 * n2 < 2^30
BigDiv(a, n1, n2) ==
    LET d1 == BigDivFrom(a, n1, 1)
        d2 == BigDivFrom(d1.q, n2, 1)
    IN  [q |-> d2.q, r |-> d2.r * n1 + d1.r]

\* a / (n1 * n2) rounded to the nearest integer, a tie to the even one
BigDivRound(a, n1, n2) ==
    LET d == BigDiv(a, n1, n2)
    IN  IF 2 * d.r > n1 * n2 \/ (2 * d.r = n1 * n2 /\ d.q[1] % 2 = 1)
        THEN BigAdd(d.q, BigOf(1))
        ELSE d.q

\* a rounded to DoublePrecision significant bits, a tie to the even one
\* (a has fewer than DoublePrecision + LimbBits bits)
RoundToDouble(a) ==
    LET j == TopBit(a) - DoublePrecision
    IN  IF j <= 0 THEN a
        ELSE LET low == a[1] % (2 ^ j)
                 lsb == (a[1] \div (2 ^ j)) % 2
                 kept == [a EXCEPT ![1] = @ - low]
                 roundUp == 2 * low > 2 ^ j \/ (2 * low = 2 ^ j /\ lsb = 1)
             IN  IF roundUp THEN BigAdd(kept, BigOf(2 ^ j)) ELSE kept

\* the double nearest to N / (D1 * D2) > 0: its mantissa, as a multiple of
\* the unit 2^-k in which the mantissa has DoublePrecision bits
DoubleOf(N, D1, D2) ==
    LET k == DoublePrecision - 1 + TopBit(BigOf(D1 * D2)) - TopBit(BigOf(N))
    IN  IF TopBit(BigDiv(ShiftLeft(BigOf(N), k), D1, D2).q) = DoublePrecision
        THEN BigDivRound(ShiftLeft(BigOf(N), k), D1, D2)
        ELSE BigDivRound(ShiftLeft(BigOf(N), k + 1), D1, D2)

\* dataset.reduce((sum, v) => sum + v, 0) for n copies of the double m
RECURSIVE FloatSum(_, _)
FloatSum(m, n) ==
    IF n = 0 THEN BigOf(0) ELSE RoundToDouble(BigAdd(FloatSum(m, n - 1), m))

\* sum / dataset.length: the quotient lies between 2^52 and 2^53 units, where
\* the doubles are the integers; the sum of a single value is the value
FloatMean(m, n) ==
    LET sum == FloatSum(m, n)
    IN  IF sum = m THEN m ELSE BigDivRound(sum, n, 1)

\* calculateZScore for a dataset of n copies of the positive value
\* N / (D1 * D2), in whole units: with mean === value every deviation is 0,
\* stdDev is 0 and the result is 0; otherwise every deviation is the same
\* d # 0, the variance is d*d, stdDev is |d| and the result is d/|d|
EqualCohortZ(N, D1, D2, n) ==
    LET m == DoubleOf(N, D1, D2)
    IN  BigCompare(m, FloatMean(m, n))

\* a quotient beyond every score: a deviation divided by a rounding error
HugeScore == 2 ^ 30

Sign(x) == IF x > 0 THEN 1 ELSE IF x < 0 THEN -1 ELSE 0

\* calculateZScore(value, dataset) for a dataset of n copies of v (efp units).
\* No rounding happens, and the mean is the value, where the sums are doubles
\* themselves: 0 + v and v + v always are, and so are the first multiples of
\* a value that is a whole number of 64ths of a point.
EqualDatasetZ(value, v, n) ==
    IF v = 0 THEN 0
    ELSE LET g == GCD(Abs(v), EfpPts(1, 1))
             D == EfpPts(1, 1) \div g
             D1 == GCD(D, 5 ^ 6)
             e == Sign(v) * EqualCohortZ(Abs(v) \div g, D1, D \div D1, n)
         IN  IF n <= 2 \/ D \in {2 ^ j : j \in 0..6} \/ e = 0 THEN 0
             ELSE IF value = v THEN e * Sc(1, 1)
             ELSE Sign(value - v) * HugeScore

\* mutant of calculateZScore: the sample standard deviation (n - 1)
calculateZScore_SampleStdDev(value, dataset) ==
    IF Len(dataset) = 0 THEN 0
    ELSE LET n == Len(dataset)
             S == SumSeq(dataset)
             devs == [i \in 1..n |-> n * dataset[i] - S]
             dv == n * value - S
         IN  IF \A i \in 1..n : devs[i] = 0 THEN 0
             ELSE LET g == GCD(GCDSeq(devs), Abs(dv))
                      Q == SumSeq([i \in 1..n |-> (devs[i] \div g) * (devs[i] \div g)])
                      m == Abs(dv) \div g
                      mag == ISqrt((m * m * (n - 1) * 10000) \div Q)
                  IN  IF dv < 0 THEN -(mag * 28) ELSE mag * 28

\* The z-score of value in dataset, in score units, truncated toward zero to
\* two decimals.  With n = dataset.length and S its sum, value - mean is
\* (n*value - S)/n and the population variance is SUM (n*v - S)^2 / n^3, so
\* z = (n*value - S) * sqrt(n) / sqrt(SUM (n*v - S)^2).  The deviations are
\* divided by their common divisor before they are squared, which leaves the
\* quotient unchanged.  When the values of the dataset are all equal, the
\* doubles decide whether stdDev === 0 (EqualCohortZ).
calculateZScore(value, dataset) ==
    IF Len(dataset) = 0 THEN 0
    ELSE LET n == Len(dataset)
             S == SumSeq(dataset)
             devs == [i \in 1..n |-> n * dataset[i] - S]
             dv == n * value - S
         IN  IF \A i \in 1..n : devs[i] = 0
             THEN EqualDatasetZ(value, dataset[1], n)
             ELSE LET g == GCD(GCDSeq(devs), Abs(dv))
                      Q == SumSeq([i \in 1..n |-> (devs[i] \div g) * (devs[i] \div g)])
                      m == Abs(dv) \div g
                      mag == ISqrt((m * m * n * 10000) \div Q)
                  IN  IF dv < 0 THEN -(mag * 28) ELSE mag * 28

\* context is Null or Some(game line); the bonus in score units
calculateScriptBonus(position, context) ==
    IF context = Null \/ ~TruthyNum(context[1].spread) THEN 0
    ELSE LET spread == context[1].spread[1]
             lean == calculateScriptLean(context[1], context[1].home_team, 9)
         IN  IF position = "RB" THEN Sc(6, 10) * lean.runLean
             ELSE IF IsPassCatcher(position) THEN Sc(6, 10) * lean.passLean
             ELSE IF position = "QB" THEN (IF spread < 0 THEN Sc(4, 10) ELSE 0)
             ELSE 0

\* (it - 21) / 7 with it in quarters is (it - 84) / 28
calculateITBonus(context) ==
    IF context = Null \/ context[1].implied_totals = Null THEN 0
    ELSE Sc(context[1].implied_totals[1].homeIT - 84, 28)

\* String.prototype.toUpperCase on the status codes the model uses
ToUpperCase(s) ==
    CASE s = "q" -> "Q"
      [] s = "d" -> "D"
      [] s = "o" -> "O"
      [] s = "ir" -> "IR"
      [] OTHER -> s

\* mutant of calculateInjuryPenalty: IR is not among the Out statuses
calculateInjuryPenalty_NoIR(status) ==
    IF status = "" THEN 0
    ELSE LET s == ToUpperCase(status)
         IN  IF s = "Q" THEN Sc(-3, 10)
             ELSE IF s = "D" THEN Sc(-8, 10)
             ELSE IF s \in {"O", "PUP", "SUSP"} THEN Sc(-999, 1)
             ELSE 0

\* status "" stands for null (getTeamRoster: player.status || null)
calculateInjuryPenalty(status) ==
    IF status = "" THEN 0
    ELSE LET s == ToUpperCase(status)
         IN  IF s = "Q" THEN Sc(-3, 10)
             ELSE IF s = "D" THEN Sc(-8, 10)
             ELSE IF s \in {"O", "IR", "PUP", "SUSP"} THEN Sc(-999, 1)
             ELSE 0

\* mutant of calculateSitStartScore: the script and IT weights exchanged
calculateSitStartScore_SwappedWeights(efp, context, player, rules, allPlayers) ==
    IF context = Null THEN 0
    ELSE LET positionPlayers ==
                 SelectSeq(allPlayers, LAMBDA p : p.position = player.position)
             zScore == calculateZScore(efp,
                 [i \in 1..Len(positionPlayers) |-> positionPlayers[i].efp])
         IN  zScore
             + (25 * calculateScriptBonus(player.position, context)) \div 100
             + (35 * calculateITBonus(context)) \div 100
             + (20 * calculateInjuryPenalty(player.status)) \div 100

calculateSitStartScore(efp, context, player, rules, allPlayers) ==
    IF context = Null THEN 0
    ELSE LET positionPlayers ==
                 SelectSeq(allPlayers, LAMBDA p : p.position = player.position)
             zScore == calculateZScore(efp,
                 [i \in 1..Len(positionPlayers) |-> positionPlayers[i].efp])
             scriptBonus == calculateScriptBonus(player.position, context)
             itBonus == calculateITBonus(context)
             injuryPenalty == calculateInjuryPenalty(player.status)
             byePenalty == 0
         IN  zScore + (35 * scriptBonus) \div 100 + (25 * itBonus) \div 100
             + (20 * injuryPenalty) \div 100 + byePenalty

\* mutant of TierOf: the cutoffs are exclusive
TierOf_Exclusive(score) ==
    IF score > TIER_THRESHOLDS.S THEN "S"
    ELSE IF score > TIER_THRESHOLDS.A THEN "A"
    ELSE IF score > TIER_THRESHOLDS.B THEN "B"
    ELSE IF score > TIER_THRESHOLDS.C THEN "C"
    ELSE "D"

\* the tier assignTiers gives one score
TierOf(score) ==
    IF score >= TIER_THRESHOLDS.S THEN "S"
    ELSE IF score >= TIER_THRESHOLDS.A THEN "A"
    ELSE IF score >= TIER_THRESHOLDS.B THEN "B"
    ELSE IF score >= TIER_THRESHOLDS.C THEN "C"
    ELSE "D"

\* { ...player, tier }
assignTiers(players) ==
    [i \in 1..Len(players) |-> [tier |-> TierOf(players[i].score)] @@ players[i]]

---------------------------------------------------------------------------
(* ff-scoring.mjs: reasons.  A reason string is modelled as a tuple: its   *)
(* fixed text first, then the numbers formatted into it.                   *)

\* it.toFixed(1) for it in quarters: tenths, a tie rounded away from zero
ToFixed1Quarters(q) ==
    IF q >= 0 THEN (10 * q + 2) \div 4 ELSE -((10 * (-q) + 2) \div 4)

\* (d).toFixed(1) for d in score units: tenths, a tie rounded away from zero
ToFixed1Score(d) ==
    IF d >= 0 THEN (10 * d + 1400) \div 2800 ELSE -((10 * (-d) + 1400) \div 2800)

PropPart(props, k, label) ==
    IF HasProp(props, k) THEN <<(<<props[k], label>>)>> ELSE <<>>

PropsReason(player) ==
    IF IsEmptyObject(player.props) THEN <<>>
    ELSE LET propParts ==
                 PropPart(player.props, "pass_yds", "pass yds")
                 \o PropPart(player.props, "rush_yds", "rush yds")
                 \o PropPart(player.props, "rec_yds", "rec yds")
                 \o PropPart(player.props, "receptions", "rec")
                 \o PropPart(player.props, "anytime_td_prob", "% TD")
                 \o PropPart(player.props, "two_plus_td_prob", "% 2+ TD")
         IN  IF Len(propParts) > 0 THEN <<(<<"Props", propParts>>)>> ELSE <<>>

ImpliedTotalReason(player) ==
    IF player.context # Null /\ player.context[1].implied_totals # Null
    THEN LET it == player.context[1].implied_totals[1].homeIT
         IN  IF it >= 96 THEN <<(<<"High implied total", ToFixed1Quarters(it)>>)>>
             ELSE IF it <= 72 THEN <<(<<"Low implied total", ToFixed1Quarters(it)>>)>>
             ELSE <<>>
    ELSE <<>>

ScriptReason(player) ==
    IF player.context # Null /\ TruthyNum(player.context[1].spread)
    THEN LET lean == calculateScriptLean(player.context[1], player.team, 9)
         IN  (IF lean.passLean # 0 /\ player.position \in {"WR", "TE", "QB"}
              THEN <<(<<"Pass-heavy game script (underdog)">>)>> ELSE <<>>)
             \o (IF lean.runLean # 0 /\ player.position = "RB"
                 THEN <<(<<"Run-heavy game script (favorite)">>)>> ELSE <<>>)
    ELSE <<>>

CeilingReason(player) ==
    IF HasProp(player.props, "two_plus_td_prob")
       /\ player.props["two_plus_td_prob"] > 15
    THEN <<(<<"High ceiling", player.props["two_plus_td_prob"]>>)>>
    ELSE <<>>

InjuryReason(player) ==
    IF player.status = "" THEN <<>>
    ELSE LET s == ToUpperCase(player.status)
         IN  (IF s = "Q" THEN <<(<<"Injury concern (Questionable)">>)>> ELSE <<>>)
             \o (IF s = "D" THEN <<(<<"Injury concern (Doubtful)">>)>> ELSE <<>>)
             \o (IF s = "O" THEN <<(<<"OUT for this game">>)>> ELSE <<>>)

\* context?.week: undefined without a context and for a line without a week
\* key; bye_week is null (Null) or a number (Some), never undefined
ContextWeek(player) ==
    IF player.context # Null /\ "week" \in DOMAIN player.context[1]
    THEN Some(player.context[1].week) ELSE Null

ByeReason(player) ==
    IF ContextWeek(player) # Null /\ player.bye_week = ContextWeek(player)
    THEN <<(<<"BYE WEEK - DO NOT START">>)>> ELSE <<>>

NoPropsReason(player) ==
    IF IsEmptyObject(player.props)
    THEN <<(<<"No props available (using fallback estimate)">>)>> ELSE <<>>

\* mutant of generateReasons: five reasons are kept
generateReasons_KeepFive(player, rules) ==
    LET reasons == PropsReason(player) \o ImpliedTotalReason(player)
                   \o ScriptReason(player) \o CeilingReason(player)
                   \o InjuryReason(player) \o ByeReason(player)
                   \o NoPropsReason(player)
    IN  SubSeq(reasons, 1, Min(5, Len(reasons)))

generateReasons(player, rules) ==
    LET reasons == PropsReason(player) \o ImpliedTotalReason(player)
                   \o ScriptReason(player) \o CeilingReason(player)
                   \o InjuryReason(player) \o ByeReason(player)
                   \o NoPropsReason(player)
    IN  SubSeq(reasons, 1, Min(4, Len(reasons)))

---------------------------------------------------------------------------
(* ff-scoring.mjs: lineup and flex swaps *)

\* mutant of SortsBefore: equal scores also sort before
SortsBefore_TiesFirst(a, b, descending) ==
    IF descending THEN a.score >= b.score ELSE a.score <= b.score

\* the comparators: (a, b) => b.score - a.score (descending) and
\* (a, b) => a.score - b.score (ascending)
SortsBefore(a, b, descending) ==
    IF descending THEN a.score > b.score ELSE a.score < b.score

\* Array.prototype.sort is stable: x goes after the elements that do not
\* sort after it
RECURSIVE InsertSorted(_, _, _)
InsertSorted(sorted, x, descending) ==
    IF sorted = <<>> THEN <<x>>
    ELSE IF SortsBefore(x, Head(sorted), descending) THEN <<x>> \o sorted
         ELSE <<Head(sorted)>> \o InsertSorted(Tail(sorted), x, descending)

RECURSIVE SortByScore(_, _)
SortByScore(s, descending) ==
    IF s = <<>> THEN <<>>
    ELSE InsertSorted(SortByScore(SubSeq(s, 1, Len(s) - 1), descending),
                      s[Len(s)], descending)

\* mutant of FillFrom: "filled[pos] <= needed"
RECURSIVE FillFrom_OffByOne(_, _, _)
FillFrom_OffByOne(sorted, counts, k) ==
    IF k = 0
    THEN [starters |-> <<>>, bench |-> <<>>, filled |-> [pos \in DOMAIN counts |-> 0]]
    ELSE LET prev == FillFrom_OffByOne(sorted, counts, k - 1)
             player == sorted[k]
             pos == player.position
             needed == IF pos \in DOMAIN counts THEN counts[pos] ELSE 0
         IN  IF pos \in DOMAIN prev.filled /\ prev.filled[pos] <= needed
             THEN [starters |-> Append(prev.starters, [slot |-> pos] @@ player),
                   bench |-> prev.bench,
                   filled |-> [prev.filled EXCEPT ![pos] = @ + 1]]
             ELSE [starters |-> prev.starters,
                   bench |-> Append(prev.bench, [slot |-> "BN"] @@ player),
                   filled |-> prev.filled]

\* the lineup after the first k players of sorted have been assigned
RECURSIVE FillFrom(_, _, _)
FillFrom(sorted, counts, k) ==
    IF k = 0
    THEN [starters |-> <<>>, bench |-> <<>>, filled |-> [pos \in DOMAIN counts |-> 0]]
    ELSE LET prev == FillFrom(sorted, counts, k - 1)
             player == sorted[k]
             pos == player.position
             needed == IF pos \in DOMAIN counts THEN counts[pos] ELSE 0
         IN  IF pos \in DOMAIN prev.filled /\ prev.filled[pos] < needed
             THEN [starters |-> Append(prev.starters, [slot |-> pos] @@ player),
                   bench |-> prev.bench,
                   filled |-> [prev.filled EXCEPT ![pos] = @ + 1]]
             ELSE [starters |-> prev.starters,
                   bench |-> Append(prev.bench, [slot |-> "BN"] @@ player),
                   filled |-> prev.filled]

\* mutant of fillLineup: a started RB, WR or TE is labelled FLEX when the
\* league has a FLEX slot
fillLineup_LabelsFlex(players, counts) ==
    LET sorted == SortByScore(players, TRUE)
        done == FillFrom(sorted, counts, Len(sorted))
        hasFlex == "FLEX" \in DOMAIN counts /\ counts["FLEX"] > 0
    IN  [starters |->
             [i \in 1..Len(done.starters) |->
                 IF hasFlex /\ done.starters[i].position \in {"RB", "WR", "TE"}
                 THEN [done.starters[i] EXCEPT !.slot = "FLEX"]
                 ELSE done.starters[i]],
         bench |-> done.bench]

fillLineup(players, counts) ==
    LET sorted == SortByScore(players, TRUE)
        done == FillFrom(sorted, counts, Len(sorted))
    IN  [starters |-> done.starters, bench |-> done.bench]

\* mutant of fillLineupFromActual: only BN is a bench slot
fillLineupFromActual_OnlyBN(players) ==
    [starters |-> SelectSeq(players, LAMBDA p : ~(p.slot = "BN")),
     bench |-> SelectSeq(players, LAMBDA p : p.slot = "BN")]

fillLineupFromActual(players) ==
    [starters |-> SelectSeq(players, LAMBDA p : ~(p.slot = "BN" \/ p.slot = "IR")),
     bench |-> SelectSeq(players, LAMBDA p : p.slot = "BN" \/ p.slot = "IR")]

IsFlexPosition(position) == position \in {"RB", "WR", "TE"}

\* the swaps pushed for one bench player, in the order of flexStarters
RECURSIVE SwapsFor(_, _)
SwapsFor(benchPlayer, flexStarters) ==
    IF flexStarters = <<>> THEN <<>>
    ELSE (IF benchPlayer.score - Head(flexStarters).score > Sc(1, 1)
          THEN <<[action |-> "swap", out |-> Head(flexStarters).name,
                  in |-> benchPlayer.name,
                  improvement |->
                      ToFixed1Score(benchPlayer.score - Head(flexStarters).score)]>>
          ELSE <<>>)
         \o SwapsFor(benchPlayer, Tail(flexStarters))

RECURSIVE SwapsOver(_, _)
SwapsOver(flexBench, flexStarters) ==
    IF flexBench = <<>> THEN <<>>
    ELSE SwapsFor(Head(flexBench), flexStarters)
         \o SwapsOver(Tail(flexBench), flexStarters)

\* mutant of tryFlexSwaps: a bench player is dropped from the candidates
\* once it has been suggested
tryFlexSwaps_OncePerBenchPlayer(startersIn, benchIn) ==
    LET flexStarters ==
            SortByScore(SelectSeq(startersIn,
                            LAMBDA p : IsFlexPosition(p.position) /\ p.slot = "FLEX"),
                        FALSE)
        flexBench ==
            SortByScore(SelectSeq(benchIn, LAMBDA p : IsFlexPosition(p.position)),
                        TRUE)
        all == SwapsOver(flexBench, flexStarters)
        firsts == { k \in 1..Len(all) : \A j \in 1..(k - 1) : all[j].in # all[k].in }
        RECURSIVE Keep(_)
        Keep(k) == IF k = 0 THEN <<>>
                   ELSE Keep(k - 1) \o (IF k \in firsts THEN <<all[k]>> ELSE <<>>)
        swaps == Keep(Len(all))
    IN  SubSeq(swaps, 1, Min(3, Len(swaps)))

\* mutant of tryFlexSwaps: the bench candidates are scanned in input order
tryFlexSwaps_BenchUnsorted(startersIn, benchIn) ==
    LET flexStarters ==
            SortByScore(SelectSeq(startersIn,
                            LAMBDA p : IsFlexPosition(p.position) /\ p.slot = "FLEX"),
                        FALSE)
        flexBench == SelectSeq(benchIn, LAMBDA p : IsFlexPosition(p.position))
        swaps == SwapsOver(flexBench, flexStarters)
    IN  SubSeq(swaps, 1, Min(3, Len(swaps)))

tryFlexSwaps(startersIn, benchIn) ==
    LET flexStarters ==
            SortByScore(SelectSeq(startersIn,
                            LAMBDA p : IsFlexPosition(p.position) /\ p.slot = "FLEX"),
                        FALSE)
        flexBench ==
            SortByScore(SelectSeq(benchIn, LAMBDA p : IsFlexPosition(p.position)),
                        TRUE)
        swaps == SwapsOver(flexBench, flexStarters)
    IN  SubSeq(swaps, 1, Min(3, Len(swaps)))

---------------------------------------------------------------------------
(* Inputs of the ff-run handler *)

MaxRoster == 4

\* getTeamRoster's records: status "" is null, bye_week Null is null
Player(name, position, team, status, bye) ==
    [name |-> name, position |-> position, team |-> team, status |-> status,
     bye_week |-> bye, slot |-> position]

PlayerPool ==
    << Player("Mahomes", "QB", "KC", "", Some(10)),
       Player("Pacheco", "RB", "KC", "Q", Some(10)),
       Player("Cook", "RB", "BUF", "", Some(7)),
       Player("Pollard", "RB", "DAL", "O", Null),
       Player("Lamb", "WR", "DAL", "", Some(7)),
       Player("Brown", "WR", "PHI", "D", Some(9)),
       Player("Wilson", "WR", "NYJ", "Q", Some(12)),
       Player("Hall", "RB", "NYJ", "O", Some(12)) >>

\* the pool's players at the indices in S, in the pool's order
RECURSIVE PoolPlayers(_)
PoolPlayers(S) ==
    IF S = {} THEN <<>>
    ELSE LET m == CHOOSE x \in S : \A y \in S : x <= y
         IN  <<PlayerPool[m]>> \o PoolPlayers(S \ {m})

\* the rosters: one to MaxRoster different players (the handler returns 404
\* for an empty roster)
Rosters ==
    { PoolPlayers(S) : S \in { T \in SUBSET (1..Len(PlayerPool)) :
                                 Cardinality(T) \in 1..MaxRoster } }

\* getWeekLines' results: NYJ never has a game, DAL and PHI not every week
LineOptions ==
    { << GameLine("KC", "BUF", Some(-12), Some(84)),
         GameLine("DAL", "PHI", Some(12), Some(96)) >>,
      << GameLine("KC", "BUF", Some(12), Some(96)) >>,
      << GameLine("KC", "BUF", Some(0), Some(88)),
         GameLine("DAL", "PHI", Some(-6), Some(90)) >>,
      << GameLine("KC", "BUF", Null, Some(88)) >> }

\* getPlayerProps' entries: { name, team: null, props: {...} }
PropsEntry(name, props) == [name |-> name, team |-> Null, props |-> props]

PropsOptions ==
    { <<>>,
      ("Mahomes" :> PropsEntry("Mahomes",
           [pass_yds |-> 27550, pass_yds_prob |-> 52, pass_tds |-> 150]))
      @@ ("Cook" :> PropsEntry("Cook",
           [rush_yds |-> 6550, anytime_td_prob |-> 45, two_plus_td_prob |-> 14]))
      @@ ("Lamb" :> PropsEntry("Lamb",
           [rec_yds |-> 7050, receptions |-> 550])) }

\* getLeagueSettings' scoring rules (hundredths)
StandardRules ==
    [passYards |-> 4, passTD |-> 400, passInt |-> -200, rushYards |-> 10,
     rushTD |-> 600, recYards |-> 10, reception |-> 0, recTD |-> 600]

PPRRules == [StandardRules EXCEPT !.reception = 100]

\* getLeagueSettings' default slot requirements
DefaultPositionCounts ==
    ("QB" :> 1) @@ ("RB" :> 2) @@ ("WR" :> 2) @@ ("TE" :> 1) @@ ("FLEX" :> 1)
    @@ ("K" :> 1) @@ ("DEF" :> 1) @@ ("BN" :> 6)

---------------------------------------------------------------------------
(* The ff-run handler, step 8 onward *)

NoCall == [fn |-> "none"]

\* the handler's step 8 reads neither the clock nor the stores
ServiceIdle ==
    /\ now = 0
    /\ authStore = Null
    /\ browserCookies = <<>>
    /\ cacheStore = <<>>
    /\ cacheLog = <<>>

Init ==
    /\ pc = "efp"
    /\ roster \in Rosters
    /\ lines \in LineOptions
    /\ allProps \in PropsOptions
    /\ scoringRules = PPRRules
    /\ positionCounts = DefaultPositionCounts
    /\ explain \in {"all", "min"}
    /\ scoredPlayers = <<>>
    /\ idx = 1
    /\ tieredPlayers = <<>>
    /\ starters = <<>>
    /\ bench = <<>>
    /\ flexOptions = <<>>
    /\ call = NoCall
    /\ ret = Null
    /\ ServiceIdle

\* allProps[player.name] || {}
PropsFor(name) == IF name \in DOMAIN allProps THEN allProps[name] ELSE <<>>

\* one iteration of "for (const player of roster)"
ScoredRecord(player) ==
    LET gameContext == getGameContext(lines, player.team)
    IN  IF gameContext = Null
        THEN [props |-> <<>>, context |-> Null, efp |-> 0, ceiling_bonus |-> 0,
              is_bye_week |-> TRUE] @@ player
        ELSE LET props == PropsFor(player.name)
                 efp == expectedFantasyPoints(props, scoringRules, player.position,
                                              gameContext)
                 ceilingBonus == applyMultiTDBonus(efp, props, scoringRules,
                                                   player.position)
             IN  [props |-> props, context |-> gameContext,
                  efp |-> efp + ceilingBonus, ceiling_bonus |-> ceilingBonus,
                  is_bye_week |-> FALSE] @@ player

ComputeEfp ==
    /\ pc = "efp"
    /\ idx <= Len(roster)
    /\ scoredPlayers' = Append(scoredPlayers, ScoredRecord(roster[idx]))
    /\ IF idx = Len(roster)
       THEN pc' = "score" /\ idx' = 1
       ELSE pc' = pc /\ idx' = idx + 1
    /\ UNCHANGED <<roster, lines, allProps, scoringRules, positionCounts, explain,
                   tieredPlayers, starters, bench, flexOptions, call, ret>>
    /\ UNCHANGED serviceVars

\* mutant of NonByePlayers: the bye-week players are not filtered out
NonByePlayers_All(players) == players

\* scoredPlayers.filter(p => !p.is_bye_week)
NonByePlayers(players) == SelectSeq(players, LAMBDA p : ~p.is_bye_week)

\* one iteration of "for (const player of scoredPlayers)"
WithScore(player, players) ==
    IF player.is_bye_week
    THEN [score |-> 0, tier |-> "BYE"] @@ player
    ELSE [score |-> calculateSitStartScore(player.efp, player.context, player,
                                           scoringRules, NonByePlayers(players))]
         @@ player

\* mutant of ComputeScore: the score is also set inside the first loop, for
\* the player just pushed
ComputeScore_InsideEfpLoop ==
    \/ /\ pc = "score"
       /\ idx <= Len(scoredPlayers)
       /\ scoredPlayers' =
              [scoredPlayers EXCEPT ![idx] = WithScore(scoredPlayers[idx], scoredPlayers)]
       /\ IF idx = Len(scoredPlayers)
          THEN pc' = "tiers" /\ idx' = 1
          ELSE pc' = pc /\ idx' = idx + 1
       /\ UNCHANGED <<roster, lines, allProps, scoringRules, positionCounts, explain,
                      tieredPlayers, starters, bench, flexOptions, call, ret>>
       /\ UNCHANGED serviceVars
    \/ /\ pc = "efp"
       /\ scoredPlayers # <<>>
       /\ "score" \notin DOMAIN scoredPlayers[Len(scoredPlayers)]
       /\ scoredPlayers' =
              [scoredPlayers EXCEPT ![Len(scoredPlayers)] =
                  WithScore(scoredPlayers[Len(scoredPlayers)], scoredPlayers)]
       /\ UNCHANGED <<pc, idx, roster, lines, allProps, scoringRules, positionCounts,
                      explain, tieredPlayers, starters, bench, flexOptions, call, ret>>
       /\ UNCHANGED serviceVars

ComputeScore ==
    /\ pc = "score"
    /\ idx <= Len(scoredPlayers)
    /\ scoredPlayers' =
           [scoredPlayers EXCEPT ![idx] = WithScore(scoredPlayers[idx], scoredPlayers)]
    /\ IF idx = Len(scoredPlayers)
       THEN pc' = "tiers" /\ idx' = 1
       ELSE pc' = pc /\ idx' = idx + 1
    /\ UNCHANGED <<roster, lines, allProps, scoringRules, positionCounts, explain,
                   tieredPlayers, starters, bench, flexOptions, call, ret>>
    /\ UNCHANGED serviceVars

AssignTiers ==
    /\ pc = "tiers"
    /\ tieredPlayers' = assignTiers(scoredPlayers)
    /\ pc' = "reasons"
    /\ UNCHANGED <<roster, lines, allProps, scoringRules, positionCounts, explain,
                   scoredPlayers, idx, starters, bench, flexOptions, call, ret>>
    /\ UNCHANGED serviceVars

GenerateReasons ==
    /\ pc = "reasons"
    /\ tieredPlayers' =
           IF explain = "all"
           THEN [i \in 1..Len(tieredPlayers) |->
                    [reasons |-> generateReasons(tieredPlayers[i], scoringRules)]
                    @@ tieredPlayers[i]]
           ELSE tieredPlayers
    /\ pc' = "fill"
    /\ UNCHANGED <<roster, lines, allProps, scoringRules, positionCounts, explain,
                   scoredPlayers, idx, starters, bench, flexOptions, call, ret>>
    /\ UNCHANGED serviceVars

FillLineup ==
    /\ pc = "fill"
    /\ LET lineup == fillLineup(tieredPlayers, positionCounts)
       IN  starters' = lineup.starters /\ bench' = lineup.bench
    /\ pc' = "flex"
    /\ UNCHANGED <<roster, lines, allProps, scoringRules, positionCounts, explain,
                   scoredPlayers, idx, tieredPlayers, flexOptions, call, ret>>
    /\ UNCHANGED serviceVars

TryFlexSwaps ==
    /\ pc = "flex"
    /\ flexOptions' = tryFlexSwaps(starters, bench)
    /\ pc' = "done"
    /\ UNCHANGED <<roster, lines, allProps, scoringRules, positionCounts, explain,
                   scoredPlayers, idx, tieredPlayers, starters, bench, call, ret>>
    /\ UNCHANGED serviceVars

Next ==
    \/ ComputeEfp
    \/ ComputeScore
    \/ AssignTiers
    \/ GenerateReasons
    \/ FillLineup
    \/ TryFlexSwaps

Spec == Init /\ [][Next]_vars

---------------------------------------------------------------------------
(* Claims about the handler *)

\* the handler scored this roster player as a bye-week player
HasNoGame(player) == getGameContext(lines, player.team) = Null

Output == starters \o bench

\* C1 (as claimed): in the final starters/bench output every roster player
\* whose team has no game context has efp = 0, score = 0 and tier = "BYE",
\* whatever their props and injury status, also after assignTiers ran.
C1_ByePlayerKeepsByeTier ==
    pc = "done" =>
        /\ Len(Output) = Len(roster)
        /\ \A i \in 1..Len(Output) :
               HasNoGame(Output[i]) =>
                   /\ Output[i].efp = 0
                   /\ Output[i].score = 0
                   /\ Output[i].tier = "BYE"

\* the modifiers of the composite score other than the z-score
ScoreModifiers(player) ==
    (35 * calculateScriptBonus(player.position, player.context)) \div 100
    + (25 * calculateITBonus(player.context)) \div 100
    + (20 * calculateInjuryPenalty(player.status)) \div 100

\* the efp values of the roster players that have a game and play position
CohortEfps(position) ==
    LET members == SelectSeq(scoredPlayers,
                       LAMBDA p : ~HasNoGame(p) /\ p.position = position)
    IN  [k \in 1..Len(members) |-> members[k].efp]

\* C4: the z-score inside a player's composite score is the z-score of the
\* player's efp among exactly the efp values of the roster players that have
\* a game and share the player's position; bye-week players and players of
\* other positions do not enter it.
C4_ZScoreCohortIsPositionNonBye ==
    \A i \in 1..Len(scoredPlayers) :
        LET p == scoredPlayers[i]
        IN  ("score" \in DOMAIN p /\ ~HasNoGame(p)) =>
                p.score - ScoreModifiers(p)
                    = calculateZScore(p.efp, CohortEfps(p.position))

\* C4 witness: a scored player with a nonzero z-score whose roster also holds
\* a bye-week player of the same position and a player of another position
C4_Witness ==
    /\ pc = "done"
    /\ \E i, j, k \in 1..Len(scoredPlayers) :
           /\ ~HasNoGame(scoredPlayers[i])
           /\ scoredPlayers[i].score # ScoreModifiers(scoredPlayers[i])
           /\ HasNoGame(scoredPlayers[j])
           /\ scoredPlayers[j].position = scoredPlayers[i].position
           /\ scoredPlayers[k].position # scoredPlayers[i].position

\* the fallback estimate as the claim states it: the script bonus goes by the
\* player's own team (teamSpread is the spread seen from that team)
ClaimedFallback(position, team, game) ==
    LET baseline == CASE position = "QB" -> 15 [] position = "RB" -> 10
                      [] position = "WR" -> 8 [] position = "TE" -> 6
                      [] position = "K" -> 8 [] position = "DEF" -> 8
                      [] OTHER -> 5
        homeIT == game.implied_totals[1].homeIT
        teamSpread == IF team = game.home_team THEN game.spread[1]
                      ELSE -game.spread[1]
        script == CASE position = "QB" /\ teamSpread < 0 -> EfpPts(1, 1)
                    [] position = "RB" /\ teamSpread <= -9 -> EfpPts(3, 2)
                    [] position \in {"WR", "TE"} /\ teamSpread >= 9 -> EfpPts(1, 1)
                    [] OTHER -> 0
    IN  EfpPts(baseline, 1) + Max(0, EfpPts(homeIT - 84, 12)) + script

\* C7 (as claimed): a player with empty props and a game context (one that
\* carries implied totals) gets baseline + max(0, (homeIT - 21)/3) + the script
\* bonus of the player's own team, for home-team and away-team players alike.
C7_FallbackUsesOwnTeamScript ==
    \A i \in 1..Len(scoredPlayers) :
        LET p == scoredPlayers[i]
        IN  (p.context # Null /\ IsEmptyObject(p.props)
             /\ p.context[1].implied_totals # Null) =>
                p.efp - p.ceiling_bonus
                    = ClaimedFallback(p.position, p.team, p.context[1])

---------------------------------------------------------------------------
(* Direct calls of the exported functions: the inputs are drawn in the     *)
(* initial state (call), the action applies the function (ret).            *)

\* the handler is not running
HandlerIdle ==
    /\ pc = "idle"
    /\ roster = <<>>
    /\ lines = <<>>
    /\ allProps = <<>>
    /\ scoringRules = StandardRules
    /\ positionCounts = DefaultPositionCounts
    /\ explain = "all"
    /\ scoredPlayers = <<>>
    /\ idx = 1
    /\ tieredPlayers = <<>>
    /\ starters = <<>>
    /\ bench = <<>>
    /\ flexOptions = <<>>

Positions == {"QB", "RB", "WR", "TE", "K", "DEF", "LB"}

\* spread -6, total 42: home implied total 24, away 18
FavoriteLine == GameLine("KC", "BUF", Some(-12), Some(84))
\* spread +7, total 39: home implied total 16, away 23
UnderdogLine == GameLine("KC", "BUF", Some(14), Some(78))
\* spread -3, total 45: home implied total 24, away 21
CloseLine == GameLine("KC", "BUF", Some(-6), Some(90))
\* a pick'em: getWeekLines derives no implied totals
PickemLine == GameLine("KC", "BUF", Some(0), Some(88))

Contexts == {Null, Some(FavoriteLine), Some(UnderdogLine), Some(CloseLine),
             Some(PickemLine)}

\* the spec's example league, with the rushing touchdown value added
ExampleRules ==
    [passYards |-> 4, passTD |-> 400, passInt |-> -200, rushYards |-> 0,
     rushTD |-> 600, recYards |-> 0, reception |-> 100, recTD |-> 600]

\* a league that values rushing and receiving touchdowns differently
SplitTDRules == [StandardRules EXCEPT !.rushTD = 400, !.reception = 50]

RulesOptions == {StandardRules, PPRRules, ExampleRules, SplitTDRules}

\* pass_yds 300, pass_tds 2, interceptions 1, rush_yds 25.5, rec_yds 60.5,
\* receptions 5.5, anytime_td_prob 0.45
FullProps ==
    [pass_yds |-> 30000, pass_tds |-> 200, interceptions |-> 100,
     rush_yds |-> 2550, rec_yds |-> 6050, receptions |-> 550,
     anytime_td_prob |-> 45]

ExampleProps == [pass_yds |-> 30000, pass_tds |-> 200, interceptions |-> 100]

\* every props object holding some of FullProps' fields, and objects whose
\* fields the estimator does not read or reads as 0
EstimatorProps ==
    { [k \in K |-> FullProps[k]] : K \in SUBSET (DOMAIN FullProps) }
    \cup { [two_plus_td_prob |-> 20], [pass_yds |-> 0, rush_yds |-> 2550],
           [pass_yds_prob |-> 52] }

EfpCalls ==
    { [fn |-> "expectedFantasyPoints", props |-> p, scoringRules |-> r,
       position |-> pos, teamContext |-> c] :
        p \in EstimatorProps, r \in RulesOptions, pos \in Positions,
        c \in {Null, Some(FavoriteLine), Some(PickemLine)} }

ProbValues == {0, 5, 14, 20, 50, 100}

BonusProps ==
    { [two_plus_td_prob |-> q] : q \in ProbValues }
    \cup { [two_plus_td_prob |-> q, anytime_td_prob |-> 45] : q \in ProbValues }
    \cup { <<>>, [anytime_td_prob |-> 45] }

BonusCalls ==
    { [fn |-> "applyMultiTDBonus", baseEFP |-> b, props |-> p,
       scoringRules |-> r, position |-> pos] :
        b \in {0, EfpPts(10, 1)}, p \in BonusProps, r \in RulesOptions,
        pos \in Positions }

InitEstimator ==
    /\ HandlerIdle
    /\ ServiceIdle
    /\ call \in EfpCalls \cup BonusCalls
    /\ ret = Null

CallExpectedFantasyPoints ==
    /\ call.fn = "expectedFantasyPoints"
    /\ ret = Null
    /\ ret' = Some(expectedFantasyPoints(call.props, call.scoringRules,
                                         call.position, call.teamContext))
    /\ UNCHANGED <<pipelineVars, serviceVars, call>>

CallApplyMultiTDBonus ==
    /\ call.fn = "applyMultiTDBonus"
    /\ ret = Null
    /\ ret' = Some(applyMultiTDBonus(call.baseEFP, call.props, call.scoringRules,
                                     call.position))
    /\ UNCHANGED <<pipelineVars, serviceVars, call>>

NextEstimator == CallExpectedFantasyPoints \/ CallApplyMultiTDBonus

SpecEstimator == InitEstimator /\ [][NextEstimator]_vars

\* props.k, an absent field counting 0
PropOrZero(props, k) == IF k \in DOMAIN props THEN props[k] ELSE 0

\* the weighted sum the claim states, in efp units
ClaimedWeightedSum(props, rules, position) ==
    300 * ( PropOrZero(props, "pass_yds") * rules.passYards
          + PropOrZero(props, "pass_tds") * rules.passTD
          + PropOrZero(props, "interceptions") * rules.passInt
          + PropOrZero(props, "rush_yds") * rules.rushYards
          + PropOrZero(props, "rec_yds") * rules.recYards
          + PropOrZero(props, "receptions") * rules.reception
          + PropOrZero(props, "anytime_td_prob")
            * (IF position \in {"WR", "TE"} THEN rules.recTD ELSE rules.rushTD) )

\* C6: with non-empty props expectedFantasyPoints returns exactly the weighted
\* sum of the seven prop fields (tdValue = recTD for WR/TE, rushTD otherwise),
\* an absent prop contributing 0; the spec's QB example gives 18.
C6_WeightedSum ==
    (call.fn = "expectedFantasyPoints" /\ ret # Null /\ ~IsEmptyObject(call.props)) =>
        /\ ret[1] = ClaimedWeightedSum(call.props, call.scoringRules, call.position)
        /\ (call.props = ExampleProps /\ call.scoringRules = ExampleRules
            /\ call.position = "QB") => ret[1] = EfpPts(18, 1)

\* C6 witness: the spec's QB example has been estimated as 18 points
C6_Witness ==
    /\ call.fn = "expectedFantasyPoints"
    /\ ret # Null
    /\ call.props = ExampleProps
    /\ call.scoringRules = ExampleRules
    /\ call.position = "QB"
    /\ ret[1] = EfpPts(18, 1)

\* the position weights the claim states (hundredths)
ClaimedCeilingWeight(position) ==
    CASE position = "RB" -> 80 [] position = "TE" -> 60 [] position = "WR" -> 35
      [] OTHER -> 0

\* C9: applyMultiTDBonus equals two_plus_td_prob * tdValue * weight, does not
\* decrease when two_plus_td_prob grows (position and rules fixed), and is 0
\* for QB, K, DEF and any unmapped position.
C9_CeilingBonusMonotone ==
    (call.fn = "applyMultiTDBonus" /\ ret # Null) =>
        LET prob == PropOrZero(call.props, "two_plus_td_prob")
            td == IF call.position \in {"WR", "TE"} THEN call.scoringRules.recTD
                  ELSE call.scoringRules.rushTD
        IN  /\ ret[1] = 3 * prob * td * ClaimedCeilingWeight(call.position)
            /\ \A q \in ProbValues :
                   q >= prob =>
                       applyMultiTDBonus(call.baseEFP,
                           [two_plus_td_prob |-> q] @@ call.props,
                           call.scoringRules, call.position) >= ret[1]
            /\ call.position \notin {"RB", "TE", "WR"} => ret[1] = 0

\* C9 witness: a nonzero bonus for a weighted position at a probability
\* below the largest one
C9_Witness ==
    /\ call.fn = "applyMultiTDBonus"
    /\ ret # Null
    /\ call.position = "TE"
    /\ HasProp(call.props, "two_plus_td_prob")
    /\ call.props["two_plus_td_prob"] < 100
    /\ ret[1] > 0

---------------------------------------------------------------------------
(* Direct calls: the composite score and the z-score *)

MaxCohort == 3

\* efp values of cohort members: 10, 15 and 20 points
CohortEfpValues == {EfpPts(10, 1), EfpPts(15, 1), EfpPts(20, 1)}

Statuses == {"", "Q", "D", "O", "IR", "PUP", "SUSP", "NA", "q", "o"}

OutStatuses == {"O", "IR", "PUP", "SUSP"}

\* the player the score is computed for
ScoredOnes ==
    { [name |-> "p", position |-> pos, team |-> t, status |-> st, efp |-> e] :
        pos \in {"QB", "RB", "WR", "K"}, t \in {"KC"}, st \in Statuses,
        e \in CohortEfpValues }

\* the other non-bye players of the run
OtherOnes ==
    { [name |-> "o", position |-> pos, team |-> "BUF", status |-> "", efp |-> e] :
        pos \in {"RB", "WR"}, e \in CohortEfpValues }

OtherSeqs == UNION { [1..n -> OtherOnes] : n \in 0..(MaxCohort - 1) }

\* the handler's call: the player is one of allPlayers and efp is its efp
ScoreCalls ==
    { [fn |-> "calculateSitStartScore", efp |-> p.efp, context |-> c,
       player |-> p, scoringRules |-> StandardRules,
       allPlayers |-> others \o <<p>>] :
        p \in ScoredOnes, c \in Contexts \ {Some(CloseLine)}, others \in OtherSeqs }

\* datasets of one to MaxCohort + 1 efp values, 0 among them
ZScoreCalls ==
    { [fn |-> "calculateZScore", dataset |-> d] :
        d \in UNION { [1..n -> CohortEfpValues \cup {0}] : n \in 1..(MaxCohort + 1) } }

InitScore ==
    /\ HandlerIdle
    /\ ServiceIdle
    /\ call \in ScoreCalls \cup ZScoreCalls
    /\ ret = Null

CallCalculateSitStartScore ==
    /\ call.fn = "calculateSitStartScore"
    /\ ret = Null
    /\ ret' = Some(calculateSitStartScore(call.efp, call.context, call.player,
                                          call.scoringRules, call.allPlayers))
    /\ UNCHANGED <<pipelineVars, serviceVars, call>>

\* calculateZScore for every member of the dataset
CallCalculateZScore ==
    /\ call.fn = "calculateZScore"
    /\ ret = Null
    /\ ret' = Some([i \in 1..Len(call.dataset) |->
                       calculateZScore(call.dataset[i], call.dataset)])
    /\ UNCHANGED <<pipelineVars, serviceVars, call>>

NextScore == CallCalculateSitStartScore \/ CallCalculateZScore

SpecScore == InitScore /\ [][NextScore]_vars

\* the z-score of the call's player within the players of its position
CallZScore ==
    LET cohort == SelectSeq(call.allPlayers,
                      LAMBDA p : p.position = call.player.position)
    IN  calculateZScore(call.efp, [i \in 1..Len(cohort) |-> cohort[i].efp])

\* 0.35*scriptBonus + 0.25*itBonus of the call
CallContextModifiers ==
    (35 * calculateScriptBonus(call.player.position, call.context)) \div 100
    + (25 * calculateITBonus(call.context)) \div 100

IsOut(status) == ToUpperCase(status) \in OutStatuses

\* C2 (as claimed): an Out (IR, PUP, Suspended) player with a game context has
\* score <= -999 + z + modifiers, and tier D.
C2_OutScoreAtMostMinus999 ==
    (call.fn = "calculateSitStartScore" /\ ret # Null /\ call.context # Null
     /\ IsOut(call.player.status)) =>
        /\ ret[1] <= Sc(-999, 1) + CallZScore + CallContextModifiers
        /\ TierOf(ret[1]) = "D"

\* C2 (amended): the penalty enters with weight 0.20, so the score of such a
\* player is z + modifiers - 199.8, and the tier is D.
C2_OutScoreIsMinus199_8 ==
    (call.fn = "calculateSitStartScore" /\ ret # Null /\ call.context # Null
     /\ IsOut(call.player.status)) =>
        /\ ret[1] = CallZScore + CallContextModifiers - Sc(1998, 10)
        /\ TierOf(ret[1]) = "D"

\* C2 witness: an Out player with the best z-score of its cohort, a favored
\* team and a high implied total
C2_Witness ==
    /\ call.fn = "calculateSitStartScore"
    /\ ret # Null
    /\ call.context = Some(FavoriteLine)
    /\ call.player.status = "IR"
    /\ CallZScore > 0
    /\ CallContextModifiers > 0

\* the itBonus and the injuryPenalty the claim states, in score units
ClaimedITBonus(context) ==
    IF context[1].implied_totals = Null THEN 0
    ELSE ((context[1].implied_totals[1].homeIT - 84) * 2800) \div 28

ClaimedInjuryPenalty(status) ==
    CASE status \in {"Q", "q"} -> -840
      [] status \in {"D", "d"} -> -2240
      [] status \in {"O", "o", "IR", "ir", "PUP", "SUSP"} -> -2797200
      [] OTHER -> 0

\* the score of the call with the player's status replaced
ScoreWithStatus(st) ==
    calculateSitStartScore(call.efp, call.context,
        [call.player EXCEPT !.status = st], call.scoringRules, call.allPlayers)

\* C8: with a game context the score is z + 0.35*scriptBonus + 0.25*itBonus
\* + 0.20*injuryPenalty, itBonus = (homeImpliedTotal - 21)/7 (0 for a line
\* without implied totals), injuryPenalty -0.3 / -0.8 / -999 / 0; all else
\* equal, healthy >= Questionable >= Doubtful >= Out.
C8_ScoreFormula ==
    (call.fn = "calculateSitStartScore" /\ ret # Null /\ call.context # Null) =>
        /\ 100 * (ret[1] - CallZScore)
               = 35 * calculateScriptBonus(call.player.position, call.context)
                 + 25 * ClaimedITBonus(call.context)
                 + 20 * ClaimedInjuryPenalty(call.player.status)
        /\ ScoreWithStatus("") >= ScoreWithStatus("Q")
        /\ ScoreWithStatus("Q") >= ScoreWithStatus("D")
        /\ ScoreWithStatus("D") >= ScoreWithStatus("O")

\* C8 witness: a Doubtful player scored in a game with implied totals
C8_Witness ==
    /\ call.fn = "calculateSitStartScore"
    /\ ret # Null
    /\ call.context = Some(UnderdogLine)
    /\ call.player.status = "D"
    /\ call.player.position = "WR"
    /\ CallZScore # 0

DistinctValues(d) == { d[i] : i \in 1..Len(d) }

\* C10: in a cohort with at least 2 distinct efp values the z-scores sum to 0
\* (up to the truncation of each z-score to two decimals) and each has the
\* sign of its efp minus the cohort mean; efps 10, 15, 20 give -1.22, 0, 1.22.
C10_ZScoresCentered ==
    (call.fn = "calculateZScore" /\ ret # Null
     /\ Cardinality(DistinctValues(call.dataset)) >= 2) =>
        LET d == call.dataset
            n == Len(d)
            z == ret[1]
        IN  /\ Abs(SumSeq(z)) < 28 * n
            /\ \A i \in 1..n :
                   /\ (n * d[i] > SumSeq(d)) <=> (z[i] > 0)
                   /\ (n * d[i] < SumSeq(d)) <=> (z[i] < 0)
            /\ d = <<EfpPts(10, 1), EfpPts(15, 1), EfpPts(20, 1)>>
                   => z = <<-Sc(122, 100), 0, Sc(122, 100)>>

\* C10 witness: the z-scores of the cohort 10, 15, 20
C10_Witness ==
    /\ call.fn = "calculateZScore"
    /\ ret # Null
    /\ call.dataset = <<EfpPts(10, 1), EfpPts(15, 1), EfpPts(20, 1)>>
    /\ ret[1][3] = Sc(122, 100)

---------------------------------------------------------------------------
(* Direct calls: generateReasons *)

\* a favorite's line that carries the schedule week
FavoriteLineWeek7 == [week |-> 7] @@ FavoriteLine

ReasonProps ==
    { <<>>,
      [rush_yds |-> 6550, anytime_td_prob |-> 45, two_plus_td_prob |-> 20],
      [pass_yds |-> 27550, two_plus_td_prob |-> 10],
      [pass_yds_prob |-> 52],
      PropsEntry("Cook", [rush_yds |-> 6550]) }

ReasonPlayers ==
    { [name |-> "p", position |-> pos, team |-> t, status |-> st, bye_week |-> bye,
       props |-> pr, context |-> c] :
        pos \in {"QB", "RB", "WR", "TE", "K"}, t \in {"KC", "BUF"},
        st \in {"", "Q", "D", "O", "IR", "q"}, bye \in {Null, Some(7)},
        pr \in ReasonProps,
        c \in {Null, Some(FavoriteLine), Some(FavoriteLineWeek7),
               Some(UnderdogLine), Some(PickemLine)} }

ReasonCalls ==
    { [fn |-> "generateReasons", player |-> p, scoringRules |-> StandardRules] :
        p \in ReasonPlayers }

InitReasons ==
    /\ HandlerIdle
    /\ ServiceIdle
    /\ call \in ReasonCalls
    /\ ret = Null

CallGenerateReasons ==
    /\ call.fn = "generateReasons"
    /\ ret = Null
    /\ ret' = Some(generateReasons(call.player, call.scoringRules))
    /\ UNCHANGED <<pipelineVars, serviceVars, call>>

NextReasons == CallGenerateReasons

SpecReasons == InitReasons /\ [][NextReasons]_vars

\* the priority of a reason: 1 props summary, 2 implied total, 3 game script,
\* 4 ceiling, 5 injury, 6 bye week, 7 no props
ReasonPriority(reason) ==
    CASE reason[1] = "Props" -> 1
      [] reason[1] \in {"High implied total", "Low implied total"} -> 2
      [] reason[1] \in {"Pass-heavy game script (underdog)",
                        "Run-heavy game script (favorite)"} -> 3
      [] reason[1] = "High ceiling" -> 4
      [] reason[1] \in {"Injury concern (Questionable)",
                        "Injury concern (Doubtful)", "OUT for this game"} -> 5
      [] reason[1] = "BYE WEEK - DO NOT START" -> 6
      [] reason[1] = "No props available (using fallback estimate)" -> 7

\* whether the reason of priority k applies to the player (spec 4.5)
ReasonApplies(player, k) ==
    LET game == player.context[1]
        hasTotals == player.context # Null /\ game.implied_totals # Null
        teamSpread == IF player.team = game.home_team THEN game.spread[1]
                      ELSE -game.spread[1]
    IN  CASE k = 1 -> \E f \in {"pass_yds", "rush_yds", "rec_yds", "receptions",
                                "anytime_td_prob", "two_plus_td_prob"} :
                          PropOrZero(player.props, f) # 0
          [] k = 2 -> hasTotals /\ (game.implied_totals[1].homeIT >= 96
                                    \/ game.implied_totals[1].homeIT <= 72)
          [] k = 3 -> hasTotals /\ game.spread # Null
                      /\ \/ (teamSpread >= 9 /\ player.position \in {"WR", "TE", "QB"})
                         \/ (teamSpread <= -9 /\ player.position = "RB")
          [] k = 4 -> PropOrZero(player.props, "two_plus_td_prob") > 15
          [] k = 5 -> player.status \in {"Q", "D", "O", "q", "d", "o"}
          [] k = 6 -> player.context # Null /\ "week" \in DOMAIN game
                      /\ player.bye_week = Some(game.week)
          [] k = 7 -> DOMAIN player.props = {}

\* the priorities of the applicable reasons, in order
RECURSIVE ApplicablePriorities(_, _)
ApplicablePriorities(player, k) ==
    IF k > 7 THEN <<>>
    ELSE (IF ReasonApplies(player, k) THEN <<k>> ELSE <<>>)
         \o ApplicablePriorities(player, k + 1)

---------------------------------------------------------------------------
(* Direct calls: fillLineup *)

MaxPlayers == 3

LineupPlayer(i, position, score) ==
    [name |-> i, position |-> position, score |-> score, slot |-> "BN"]

\* scored players: the i-th is named i; scores -1, 0 and 1
LineupSeqs ==
    UNION { { [i \in 1..n |-> LineupPlayer(i, pos[i], sc[i])] :
                pos \in [1..n -> {"QB", "RB", "WR", "LB"}],
                sc \in [1..n -> {Sc(-1, 1), 0, Sc(1, 1)}] } : n \in 0..MaxPlayers }

CountOptions ==
    { DefaultPositionCounts,
      ("QB" :> 1) @@ ("RB" :> 1) @@ ("FLEX" :> 1),
      ("RB" :> 0) @@ ("WR" :> 2),
      <<>> }

FillLineupCalls ==
    { [fn |-> "fillLineup", scoredPlayers |-> ps, positionCounts |-> c] :
        ps \in LineupSeqs, c \in CountOptions }

InitLineup ==
    /\ HandlerIdle
    /\ ServiceIdle
    /\ call \in FillLineupCalls
    /\ ret = Null

CallFillLineup ==
    /\ call.fn = "fillLineup"
    /\ ret = Null
    /\ ret' = Some(fillLineup(call.scoredPlayers, call.positionCounts))
    /\ UNCHANGED <<pipelineVars, serviceVars, call>>

NextLineup == CallFillLineup

SpecLineup == InitLineup /\ [][NextLineup]_vars

\* how many elements of s satisfy slot = label
SlotCount(s, label) == Cardinality({ i \in 1..Len(s) : s[i].slot = label })

RequiredCount(counts, label) == IF label \in DOMAIN counts THEN counts[label] ELSE 0

\* C3: fillLineup starts at most the required number of players in every
\* slot, and starters and bench together hold each input player exactly once.
C3_LineupWithinSlotCounts ==
    (call.fn = "fillLineup" /\ ret # Null) =>
        LET out == ret[1].starters \o ret[1].bench
            input == call.scoredPlayers
        IN  /\ \A label \in DOMAIN call.positionCounts \cup
                           { ret[1].starters[i].slot : i \in 1..Len(ret[1].starters) } :
                   SlotCount(ret[1].starters, label)
                       <= RequiredCount(call.positionCounts, label)
            /\ Len(ret[1].starters) + Len(ret[1].bench) = Len(input)
            /\ \A i \in 1..Len(input) :
                   Cardinality({ j \in 1..Len(out) :
                       /\ out[j].name = input[i].name
                       /\ out[j].position = input[i].position
                       /\ out[j].score = input[i].score }) = 1

\* C3 witness: a position with more players than required slots, one of them
\* started and one benched
C3_Witness ==
    /\ call.fn = "fillLineup"
    /\ ret # Null
    /\ Len(call.scoredPlayers) = 3
    /\ \E i \in 1..Len(ret[1].starters), j \in 1..Len(ret[1].bench) :
           /\ ret[1].starters[i].position = "QB"
           /\ ret[1].bench[j].position = "QB"

---------------------------------------------------------------------------
(* Direct calls: assignTiers *)

MaxTierPlayers == 2

\* composite scores at and just below every cutoff, and far from all of them
TierScoreValues ==
    { Sc(12, 10), Sc(12, 10) - 1, Sc(6, 10), Sc(6, 10) - 1, Sc(-2, 10),
      Sc(-2, 10) - 1, Sc(-8, 10), Sc(-8, 10) - 1, Sc(5, 1), Sc(-1000, 1) }

TierPlayers ==
    { [name |-> "p", position |-> pos, score |-> sc] :
        pos \in {"QB", "RB", "K"}, sc \in TierScoreValues }

AssignTiersCalls ==
    { [fn |-> "assignTiers", players |-> ps] :
        ps \in UNION { [1..n -> TierPlayers] : n \in 1..MaxTierPlayers } }

InitTiers ==
    /\ HandlerIdle
    /\ ServiceIdle
    /\ call \in AssignTiersCalls
    /\ ret = Null

CallAssignTiers ==
    /\ call.fn = "assignTiers"
    /\ ret = Null
    /\ ret' = Some(assignTiers(call.players))
    /\ UNCHANGED <<pipelineVars, serviceVars, call>>

NextTiers == CallAssignTiers

SpecTiers == InitTiers /\ [][NextTiers]_vars

\* the tier the claim states for a score (1.0 is 2800 units)
ClaimedTier(score) ==
    IF score >= 3360 THEN "S"
    ELSE IF score >= 1680 THEN "A"
    ELSE IF score >= -560 THEN "B"
    ELSE IF score >= -2240 THEN "C"
    ELSE "D"

TierRank(tier) ==
    CASE tier = "S" -> 4 [] tier = "A" -> 3 [] tier = "B" -> 2 [] tier = "C" -> 1
      [] OTHER -> 0

\* C11: assignTiers gives S for score >= 1.2, else A for >= 0.6, else B for
\* >= -0.2, else C for >= -0.8, else D; the tier depends on the score only
\* (not on the position) and a higher score never gets a lower tier.
C11_TierCutoffsMonotone ==
    (call.fn = "assignTiers" /\ ret # Null) =>
        LET in == call.players
            out == ret[1]
        IN  /\ Len(out) = Len(in)
            /\ \A i \in 1..Len(in) : out[i].tier = ClaimedTier(in[i].score)
            /\ \A i, j \in 1..Len(in) :
                   /\ in[i].score = in[j].score => out[i].tier = out[j].tier
                   /\ in[i].score >= in[j].score
                          => TierRank(out[i].tier) >= TierRank(out[j].tier)

\* C11 witness: a QB exactly at the S cutoff and a K just below it
C11_Witness ==
    /\ call.fn = "assignTiers"
    /\ ret # Null
    /\ Len(call.players) = 2
    /\ call.players[1].position = "QB" /\ call.players[1].score = Sc(12, 10)
    /\ call.players[2].position = "K" /\ call.players[2].score = Sc(12, 10) - 1
    /\ ret[1][1].tier = "S" /\ ret[1][2].tier = "A"


---------------------------------------------------------------------------
(* Direct calls of the estimator with scoring rules that lack fields.      *)
(* A missing field reads as undefined, a number times undefined is NaN,    *)
(* and NaN absorbs every later sum; neither function has a throw.          *)

PropFields ==
    {"pass_yds", "pass_tds", "interceptions", "rush_yds", "rec_yds",
     "receptions", "anytime_td_prob"}

\* the scoring rule expectedFantasyPoints multiplies props.k by
RuleOfProp(k, position) ==
    CASE k = "pass_yds" -> "passYards"
      [] k = "pass_tds" -> "passTD"
      [] k = "interceptions" -> "passInt"
      [] k = "rush_yds" -> "rushYards"
      [] k = "rec_yds" -> "recYards"
      [] k = "receptions" -> "reception"
      [] OTHER -> IF IsPassCatcher(position) THEN "recTD" ELSE "rushTD"

\* the rules a call of expectedFantasyPoints reads
RulesRead(props, position) ==
    IF IsEmptyObject(props) THEN {}
    ELSE { RuleOfProp(k, position) : k \in { f \in PropFields : HasProp(props, f) } }

\* the rules a call of applyMultiTDBonus reads
BonusRulesRead(props, position) ==
    IF position \in DOMAIN CEILING_WEIGHTS /\ CEILING_WEIGHTS[position] # 0
       /\ HasProp(props, "two_plus_td_prob")
    THEN { RuleOfProp("two_plus_td_prob", position) }
    ELSE {}

\* what the call does: it never throws; the value is NaN when a rule it reads
\* is missing, and the number computed otherwise
EfpOutcome(props, rules, position, teamContext) ==
    IF RulesRead(props, position) \subseteq DOMAIN rules
    THEN [threw |-> FALSE, nan |-> FALSE,
          value |-> expectedFantasyPoints(props, rules, position, teamContext)]
    ELSE [threw |-> FALSE, nan |-> TRUE, value |-> 0]

BonusOutcome(baseEFP, props, rules, position) ==
    IF BonusRulesRead(props, position) \subseteq DOMAIN rules
    THEN [threw |-> FALSE, nan |-> FALSE,
          value |-> applyMultiTDBonus(baseEFP, props, rules, position)]
    ELSE [threw |-> FALSE, nan |-> TRUE, value |-> 0]

\* ExampleRules, ExampleRules without one field (without rushTD it is the
\* record of the spec's example), and the empty record
PartialRules ==
    { [k \in DOMAIN ExampleRules \ {m} |-> ExampleRules[k]] : m \in DOMAIN ExampleRules }
    \cup { ExampleRules, <<>> }

PartialRulesProps ==
    { <<>>, ExampleProps, FullProps,
      [rush_yds |-> 6550, anytime_td_prob |-> 45, two_plus_td_prob |-> 14],
      [rec_yds |-> 7050, receptions |-> 550], [two_plus_td_prob |-> 20] }

PartialRulesCalls ==
    { [fn |-> "expectedFantasyPoints", props |-> p, scoringRules |-> r,
       position |-> pos, teamContext |-> c] :
        p \in PartialRulesProps, r \in PartialRules, pos \in Positions,
        c \in {Null, Some(FavoriteLine)} }
    \cup
    { [fn |-> "applyMultiTDBonus", baseEFP |-> 0, props |-> p,
       scoringRules |-> r, position |-> pos] :
        p \in PartialRulesProps, r \in PartialRules, pos \in Positions }

InitPartialRules ==
    /\ HandlerIdle
    /\ ServiceIdle
    /\ call \in PartialRulesCalls
    /\ ret = Null

CallExpectedFantasyPointsPartial ==
    /\ call.fn = "expectedFantasyPoints"
    /\ ret = Null
    /\ ret' = Some(EfpOutcome(call.props, call.scoringRules, call.position,
                              call.teamContext))
    /\ UNCHANGED <<pipelineVars, serviceVars, call>>

CallApplyMultiTDBonusPartial ==
    /\ call.fn = "applyMultiTDBonus"
    /\ ret = Null
    /\ ret' = Some(BonusOutcome(call.baseEFP, call.props, call.scoringRules,
                                call.position))
    /\ UNCHANGED <<pipelineVars, serviceVars, call>>

NextPartialRules == CallExpectedFantasyPointsPartial \/ CallApplyMultiTDBonusPartial

SpecPartialRules == InitPartialRules /\ [][NextPartialRules]_vars

\* a rule the call needs is missing from the scoring-rules record
CallLacksRule ==
    \/ /\ call.fn = "expectedFantasyPoints"
       /\ ~(RulesRead(call.props, call.position) \subseteq DOMAIN call.scoringRules)
    \/ /\ call.fn = "applyMultiTDBonus"
       /\ ~(BonusRulesRead(call.props, call.position) \subseteq DOMAIN call.scoringRules)

\* C12 (as claimed): when the scoring rules lack a field the computation
\* needs, the estimator fails explicitly; it never returns a non-numeric or
\* defaulted value.
C12_MissingRuleRejected ==
    (ret # Null /\ CallLacksRule) => (ret[1].threw /\ ~ret[1].nan)


---------------------------------------------------------------------------
(* Direct calls: tryFlexSwaps *)

MaxFlexStarters == 2
MaxFlexBench == 2

\* starters are named 1, 2, ... and bench players 11, 12, ... in input order
FlexStarterSeqs ==
    UNION { { [i \in 1..n |-> [name |-> i, position |-> o[i][1], slot |-> o[i][2],
                               score |-> o[i][3]]] :
                o \in [1..n -> {"RB", "QB"} \X {"FLEX", "RB"} \X {0, Sc(1, 1)}] } :
            n \in 0..MaxFlexStarters }

FlexBenchSeqs ==
    UNION { { [i \in 1..n |-> [name |-> 10 + i, position |-> o[i][1], slot |-> "BN",
                               score |-> o[i][2]]] :
                o \in [1..n -> {"WR", "K"} \X {Sc(2, 1), Sc(3, 1), Sc(7, 2)}] } :
            n \in 0..MaxFlexBench }

FlexSwapCalls ==
    { [fn |-> "tryFlexSwaps", starters |-> s, bench |-> b] :
        s \in FlexStarterSeqs, b \in FlexBenchSeqs }

InitFlexSwaps ==
    /\ HandlerIdle
    /\ ServiceIdle
    /\ call \in FlexSwapCalls
    /\ ret = Null

CallTryFlexSwaps ==
    /\ call.fn = "tryFlexSwaps"
    /\ ret = Null
    /\ ret' = Some(tryFlexSwaps(call.starters, call.bench))
    /\ UNCHANGED <<pipelineVars, serviceVars, call>>

NextFlexSwaps == CallTryFlexSwaps

SpecFlexSwaps == InitFlexSwaps /\ [][NextFlexSwaps]_vars

\* the (bench index, starter index) pairs the claim lets the scan suggest
QualifyingPairs ==
    { pr \in (1..Len(call.bench)) \X (1..Len(call.starters)) :
        LET b == call.bench[pr[1]]
            s == call.starters[pr[2]]
        IN  /\ b.position \in {"RB", "WR", "TE"}
            /\ s.position \in {"RB", "WR", "TE"}
            /\ s.slot = "FLEX"
            /\ b.score - s.score > 2800 }

\* pair p comes before pair q in the scan: bench candidates by descending
\* score, flex starters by ascending score, input order breaking ties
ScansBefore(p, q) ==
    LET bp == call.bench[p[1]]
        bq == call.bench[q[1]]
        sp == call.starters[p[2]]
        sq == call.starters[q[2]]
    IN  \/ bp.score > bq.score
        \/ bp.score = bq.score /\ p[1] < q[1]
        \/ p[1] = q[1] /\ sp.score < sq.score
        \/ p[1] = q[1] /\ sp.score = sq.score /\ p[2] < q[2]

\* the rank of a qualifying pair in the scan, from 1
ScanRank(p) == 1 + Cardinality({ q \in QualifyingPairs : ScansBefore(q, p) })

\* C13: tryFlexSwaps returns at most 3 suggestions, each a FLEX-slot starter
\* of position RB/WR/TE out for a bench RB/WR/TE in whose score is more than
\* 1.0 higher, and they are the first 3 qualifying pairs of the scan (bench
\* descending, flex starters ascending).
C13_FirstThreeFlexSwaps ==
    (call.fn = "tryFlexSwaps" /\ ret # Null) =>
        LET swaps == ret[1]
        IN  /\ Len(swaps) = Min(3, Cardinality(QualifyingPairs))
            /\ \A p \in QualifyingPairs :
                   ScanRank(p) <= 3 =>
                       /\ swaps[ScanRank(p)].in = call.bench[p[1]].name
                       /\ swaps[ScanRank(p)].out = call.starters[p[2]].name
                       /\ swaps[ScanRank(p)].action = "swap"

\* C13 witness: four pairs qualify and three are returned
C13_Witness ==
    /\ call.fn = "tryFlexSwaps"
    /\ ret # Null
    /\ Cardinality(QualifyingPairs) = 4
    /\ Len(ret[1]) = 3
    /\ call.bench[1].score < call.bench[2].score
    /\ call.starters[1].score > call.starters[2].score


---------------------------------------------------------------------------
(* Direct calls: fillLineupFromActual *)

MaxActualPlayers == 3

\* scored players with the slot the league reports; the i-th is named i
ActualSeqs ==
    UNION { { [i \in 1..n |-> [name |-> i, position |-> "RB", slot |-> o[i][1],
                               score |-> o[i][2]]] :
                o \in [1..n -> {"BN", "IR", "RB", "FLEX"} \X {0, Sc(1, 1)}] } :
            n \in 0..MaxActualPlayers }

ActualCalls == { [fn |-> "fillLineupFromActual", scoredPlayers |-> ps] : ps \in ActualSeqs }

InitActual ==
    /\ HandlerIdle
    /\ ServiceIdle
    /\ call \in ActualCalls
    /\ ret = Null

CallFillLineupFromActual ==
    /\ call.fn = "fillLineupFromActual"
    /\ ret = Null
    /\ ret' = Some(fillLineupFromActual(call.scoredPlayers))
    /\ UNCHANGED <<pipelineVars, serviceVars, call>>

NextActual == CallFillLineupFromActual

SpecActual == InitActual /\ [][NextActual]_vars

\* the claim's bench slots
IsBenchSlot(slot) == slot \in {"BN", "IR"}

\* how many of the first i input players fall in the same part as the i-th
RankInPart(input, i) ==
    Cardinality({ j \in 1..i : IsBenchSlot(input[j].slot) = IsBenchSlot(input[i].slot) })

\* C14: fillLineupFromActual benches a player iff its supplied slot is BN or
\* IR and starts it otherwise; every input player appears exactly once, in
\* input order within its part, with slot and score (its record) unchanged.
C14_ActualLineupPartition ==
    (call.fn = "fillLineupFromActual" /\ ret # Null) =>
        LET input == call.scoredPlayers
            out == ret[1]
        IN  /\ Len(out.starters) + Len(out.bench) = Len(input)
            /\ \A i \in 1..Len(input) :
                   IF IsBenchSlot(input[i].slot)
                   THEN /\ RankInPart(input, i) <= Len(out.bench)
                        /\ out.bench[RankInPart(input, i)] = input[i]
                   ELSE /\ RankInPart(input, i) <= Len(out.starters)
                        /\ out.starters[RankInPart(input, i)] = input[i]

\* C14 witness: an IR player and a BN player on the bench in input order
\* around a started FLEX player
C14_Witness ==
    /\ call.fn = "fillLineupFromActual"
    /\ ret # Null
    /\ Len(call.scoredPlayers) = 3
    /\ call.scoredPlayers[1].slot = "IR"
    /\ call.scoredPlayers[2].slot = "FLEX"
    /\ call.scoredPlayers[3].slot = "BN"
    /\ Len(ret[1].bench) = 2
    /\ ret[1].bench[1].name = 1
    /\ ret[1].starters[1].name = 2


---------------------------------------------------------------------------
(* The lineup functions over a heap: arrays are held by the variable that  *)
(* names them, records live at addresses (indices of objects), an array    *)
(* holds addresses.  [...a] and filter build a new array of the same       *)
(* addresses, sort reorders an array in place, { ...player } builds a new  *)
(* record.                                                                 *)

\* the addresses ids ordered as Array.prototype.sort orders their records
SortedIds(h, ids, descending) ==
    LET recs == [i \in 1..Len(ids) |->
                     [id |-> ids[i], score |-> h.objects[ids[i]].score]]
        sorted == SortByScore(recs, descending)
    IN  [i \in 1..Len(ids) |-> sorted[i].id]

\* the addresses of ids whose record satisfies the FLEX filter
FlexIds(h, ids, needFlexSlot) ==
    SelectSeq(ids, LAMBDA a : /\ IsFlexPosition(h.objects[a].position)
                              /\ (needFlexSlot => h.objects[a].slot = "FLEX"))

\* fillLineup's loop over the first k elements of sorted
RECURSIVE HeapFillFrom(_, _, _)
HeapFillFrom(h, counts, k) ==
    IF k = 0
    THEN [heap |-> h, filled |-> [pos \in DOMAIN counts |-> 0]]
    ELSE LET prev == HeapFillFrom(h, counts, k - 1)
             player == prev.heap.objects[prev.heap.arrays["sorted"][k]]
             pos == player.position
             needed == IF pos \in DOMAIN counts THEN counts[pos] ELSE 0
             start == pos \in DOMAIN prev.filled /\ prev.filled[pos] < needed
             addr == Len(prev.heap.objects) + 1
         IN  [heap |->
                  [arrays |-> [prev.heap.arrays EXCEPT
                                  ![IF start THEN "starters" ELSE "bench"] =
                                      Append(@, addr)],
                   objects |-> Append(prev.heap.objects,
                                  [slot |-> IF start THEN pos ELSE "BN"] @@ player)],
              filled |-> IF start THEN [prev.filled EXCEPT ![pos] = @ + 1]
                         ELSE prev.filled]

\* mutant of HeapFillLineup: scoredPlayers.sort(...) without the copy
HeapFillLineup_SortsInput(h, counts) ==
    LET h1 == [h EXCEPT !.arrays =
                   ("starters" :> <<>>) @@ ("bench" :> <<>>)
                   @@ ("sorted" :> SortedIds(h, h.arrays["scoredPlayers"], TRUE))
                   @@ [h.arrays EXCEPT !["scoredPlayers"] = SortedIds(h, @, TRUE)]]
    IN  HeapFillFrom(h1, counts, Len(h1.arrays["sorted"])).heap

\* fillLineup: sorted = [...scoredPlayers].sort(...), then the loop
HeapFillLineup(h, counts) ==
    LET h1 == [h EXCEPT !.arrays =
                   ("starters" :> <<>>) @@ ("bench" :> <<>>)
                   @@ ("sorted" :> h.arrays["scoredPlayers"]) @@ @]
        h2 == [h1 EXCEPT !.arrays["sorted"] = SortedIds(h1, @, TRUE)]
    IN  HeapFillFrom(h2, counts, Len(h2.arrays["sorted"])).heap

\* fillLineupFromActual's loop over the first k elements of scoredPlayers
RECURSIVE HeapActualFrom(_, _)
HeapActualFrom(h, k) ==
    IF k = 0
    THEN [h EXCEPT !.arrays = ("starters" :> <<>>) @@ ("bench" :> <<>>) @@ @]
    ELSE LET prev == HeapActualFrom(h, k - 1)
             player == prev.objects[prev.arrays["scoredPlayers"][k]]
             addr == Len(prev.objects) + 1
             target == IF player.slot = "BN" \/ player.slot = "IR"
                       THEN "bench" ELSE "starters"
         IN  [arrays |-> [prev.arrays EXCEPT ![target] = Append(@, addr)],
              objects |-> Append(prev.objects, player)]

HeapFillLineupFromActual(h) == HeapActualFrom(h, Len(h.arrays["scoredPlayers"]))

\* tryFlexSwaps: the two filters, the two sorts in place, then the scan
HeapTryFlexSwaps(h) ==
    LET h1 == [h EXCEPT !.arrays =
                   ("flexStarters" :> FlexIds(h, h.arrays["starters"], TRUE))
                   @@ ("flexBench" :> FlexIds(h, h.arrays["bench"], FALSE)) @@ @]
        h2 == [h1 EXCEPT !.arrays["flexStarters"] = SortedIds(h1, @, FALSE),
                         !.arrays["flexBench"] = SortedIds(h1, @, TRUE)]
        recordsOf(a) == [i \in 1..Len(h2.arrays[a]) |-> h2.objects[h2.arrays[a][i]]]
        swaps == SwapsOver(recordsOf("flexBench"), recordsOf("flexStarters"))
    IN  [heap |-> h2, swaps |-> SubSeq(swaps, 1, Min(3, Len(swaps)))]


MaxHeapPlayers == 2

\* the heap that holds the array players under the variable name
HeapOf(name, players) ==
    [arrays |-> (name :> [i \in 1..Len(players) |-> i]), objects |-> players]

\* the heap that holds the arrays starters and bench
HeapOfTwo(s, b) ==
    [arrays |-> ("starters" :> [i \in 1..Len(s) |-> i])
                @@ ("bench" :> [i \in 1..Len(b) |-> Len(s) + i]),
     objects |-> s \o b]

HeapPlayerSeqs ==
    UNION { { [i \in 1..n |-> [name |-> i, position |-> o[i][1], slot |-> o[i][2],
                               score |-> o[i][3]]] :
                o \in [1..n -> {"RB", "QB"} \X {"FLEX", "BN"} \X {0, Sc(1, 1)}] } :
            n \in 0..MaxHeapPlayers }

HeapBenchSeqs ==
    { <<>>,
      << [name |-> 11, position |-> "WR", slot |-> "BN", score |-> Sc(2, 1)],
         [name |-> 12, position |-> "TE", slot |-> "BN", score |-> Sc(7, 2)] >>,
      << [name |-> 11, position |-> "K", slot |-> "BN", score |-> Sc(7, 2)],
         [name |-> 12, position |-> "WR", slot |-> "IR", score |-> Sc(3, 1)] >> }

HeapCalls ==
    { [fn |-> "fillLineup", heap |-> HeapOf("scoredPlayers", ps), positionCounts |-> c] :
        ps \in HeapPlayerSeqs, c \in {DefaultPositionCounts, ("RB" :> 1)} }
    \cup { [fn |-> "fillLineupFromActual", heap |-> HeapOf("scoredPlayers", ps)] :
             ps \in HeapPlayerSeqs }
    \cup { [fn |-> "tryFlexSwaps", heap |-> HeapOfTwo(s, b)] :
             s \in HeapPlayerSeqs, b \in HeapBenchSeqs }

InitHeap ==
    /\ HandlerIdle
    /\ ServiceIdle
    /\ call \in HeapCalls
    /\ ret = Null

HeapCallFillLineup ==
    /\ call.fn = "fillLineup"
    /\ ret = Null
    /\ ret' = Some([heap |-> HeapFillLineup(call.heap, call.positionCounts),
                    returned |-> {"starters", "bench"}])
    /\ UNCHANGED <<pipelineVars, serviceVars, call>>

HeapCallFillLineupFromActual ==
    /\ call.fn = "fillLineupFromActual"
    /\ ret = Null
    /\ ret' = Some([heap |-> HeapFillLineupFromActual(call.heap),
                    returned |-> {"starters", "bench"}])
    /\ UNCHANGED <<pipelineVars, serviceVars, call>>

HeapCallTryFlexSwaps ==
    /\ call.fn = "tryFlexSwaps"
    /\ ret = Null
    /\ ret' = Some([heap |-> HeapTryFlexSwaps(call.heap).heap, returned |-> {}])
    /\ UNCHANGED <<pipelineVars, serviceVars, call>>

NextHeap ==
    HeapCallFillLineup \/ HeapCallFillLineupFromActual \/ HeapCallTryFlexSwaps

SpecHeap == InitHeap /\ [][NextHeap]_vars

\* C15: fillLineup, fillLineupFromActual and tryFlexSwaps leave every input
\* array (same addresses, same order) and every input record (same field
\* values, slot included) as they were; the arrays returned are new and hold
\* only records built by the call.
C15_InputsUnchanged ==
    (call.fn \in {"fillLineup", "fillLineupFromActual", "tryFlexSwaps"}
     /\ "heap" \in DOMAIN call /\ ret # Null) =>
        LET before == call.heap
            after == ret[1].heap
        IN  /\ \A a \in DOMAIN before.arrays : after.arrays[a] = before.arrays[a]
            /\ \A addr \in 1..Len(before.objects) :
                   after.objects[addr] = before.objects[addr]
            /\ \A a \in ret[1].returned :
                   /\ a \notin DOMAIN before.arrays
                   /\ \A i \in 1..Len(after.arrays[a]) :
                          after.arrays[a][i] > Len(before.objects)

\* C15 witness: fillLineup called on an array that is not in score order,
\* the lower-scored first player benched under a new slot
C15_Witness ==
    /\ call.fn = "fillLineup"
    /\ "heap" \in DOMAIN call
    /\ ret # Null
    /\ Len(call.heap.objects) = 2
    /\ call.heap.objects[1].score < call.heap.objects[2].score
    /\ call.heap.objects[1].slot = "FLEX"
    /\ ret[1].heap.arrays["sorted"] = <<2, 1>>
    /\ Len(ret[1].heap.arrays["bench"]) = 1
    /\ ret[1].heap.objects[ret[1].heap.arrays["bench"][1]].name = 1


---------------------------------------------------------------------------
(* Authentication: ff-blobs.mjs and ff-cookies.mjs.  Time is in minutes.   *)
(* A token record is a function on the fields it has; an access token is   *)
(* <<user, minute of issue>>, a refresh token is the user it belongs to.   *)

TOKEN_REFRESH_BUFFER == 5

MaxTime == 3

Browsers == {"b1", "b2"}

\* o.k, undefined (Null) when the field is missing
Field(o, k) == IF k \in DOMAIN o THEN Some(o[k]) ELSE Null

\* refreshTokens (both variants): Null when the token endpoint's response is
\* not ok, else the new token record; expiry = now + expires_in - 2 minutes
refreshTokens(refreshToken, ok, expiresIn) ==
    IF ~ok \/ refreshToken = Null THEN Null
    ELSE Some([access_token |-> <<refreshToken[1], now>>,
               refresh_token |-> refreshToken[1],
               expires_at |-> now + expiresIn - 2])

\* "now + TOKEN_REFRESH_BUFFER_MS >= expiresAt": a comparison with undefined
\* is false
ExpiringSoon(expiresAt) ==
    expiresAt # Null /\ now + TOKEN_REFRESH_BUFFER >= expiresAt[1]

\* ensureAuth of ff-blobs.mjs: the access token it returns (Null for null or
\* undefined), the content of the store afterwards (refreshTokens saves the
\* new tokens and goes on whether or not saveTokens succeeded), and whether
\* it refreshed
BlobsEnsureAuth(ok, expiresIn, saveOk) ==
    IF authStore = Null
    THEN [accessToken |-> Null, store |-> authStore, refreshed |-> FALSE]
    ELSE LET tokens == authStore[1]
         IN  IF ExpiringSoon(Field(tokens, "expires_at"))
             THEN LET newTokens == refreshTokens(Field(tokens, "refresh_token"),
                                                 ok, expiresIn)
                  IN  IF newTokens = Null
                      THEN [accessToken |-> Null, store |-> authStore,
                            refreshed |-> FALSE]
                      ELSE [accessToken |-> Some(newTokens[1].access_token),
                            store |-> IF saveOk THEN newTokens ELSE authStore,
                            refreshed |-> TRUE]
             ELSE [accessToken |-> Field(tokens, "access_token"),
                   store |-> authStore, refreshed |-> FALSE]

\* getTokensFromCookies: null unless the three token cookies are there (and
\* ff_expires_at is not 0)
getTokensFromCookies(cookies) ==
    IF cookies = Null THEN Null
    ELSE IF \/ Field(cookies[1], "access_token") = Null
            \/ Field(cookies[1], "refresh_token") = Null
            \/ ~TruthyNum(Field(cookies[1], "expires_at"))
         THEN Null
         ELSE cookies

\* ensureAuth of ff-cookies.mjs: the access token and the cookies the
\* response sets (Null when it sets none)
CookieEnsureAuth(cookies, ok, expiresIn) ==
    LET tokens == getTokensFromCookies(cookies)
    IN  IF tokens = Null
        THEN [accessToken |-> Null, cookies |-> Null, refreshed |-> FALSE]
        ELSE IF ExpiringSoon(Field(tokens[1], "expires_at"))
             THEN LET newTokens == refreshTokens(Field(tokens[1], "refresh_token"),
                                                 ok, expiresIn)
                  IN  IF newTokens = Null
                      THEN [accessToken |-> Null, cookies |-> Null,
                            refreshed |-> FALSE]
                      ELSE [accessToken |-> Some(newTokens[1].access_token),
                            cookies |-> newTokens, refreshed |-> TRUE]
             ELSE [accessToken |-> Some(tokens[1].access_token), cookies |-> Null,
                   refreshed |-> FALSE]

\* what the store "auth" may hold when the functions start: nothing, or the
\* tokens an earlier login of user b1 left there, possibly lacking fields
StoredTokenOptions ==
    { Null,
      Some([access_token |-> <<"b1", 0>>, refresh_token |-> "b1", expires_at |-> 7]),
      Some([access_token |-> <<"b1", 0>>, refresh_token |-> "b1", expires_at |-> 3]),
      Some([access_token |-> <<"b1", 0>>, refresh_token |-> "b1"]),
      Some([access_token |-> <<"b1", 0>>, expires_at |-> 3]),
      Some([refresh_token |-> "b1", expires_at |-> 7]) }

\* the cookies a browser may hold: none, or token cookies lacking one
CookieOptions(b) ==
    { Null,
      Some([access_token |-> <<b, 0>>, expires_at |-> 7]),
      Some([access_token |-> <<b, 0>>, refresh_token |-> b]) }

\* the request in flight and its outcome
AuthRequest(fn, b, variant, tokens, ok) ==
    [fn |-> fn, browser |-> b, variant |-> variant, tokens |-> tokens,
     cookies |-> browserCookies[b], now |-> now, refreshOk |-> ok]

InitAuth ==
    /\ HandlerIdle
    /\ call = NoCall
    /\ ret = Null
    /\ now = 0
    /\ authStore \in StoredTokenOptions
    /\ browserCookies \in [Browsers -> UNION { CookieOptions(b) : b \in Browsers }]
    /\ \A b \in Browsers : browserCookies[b] \in CookieOptions(b)
    /\ cacheStore = <<>>
    /\ cacheLog = <<>>

Tick ==
    /\ now < MaxTime
    /\ now' = now + 1
    /\ UNCHANGED <<pipelineVars, call, ret, authStore, browserCookies, cacheStore,
                   cacheLog>>

\* ff-auth-callback: the code is exchanged for the tokens of the browser's
\* user, which go into the browser's cookies only
AuthCallback(b) ==
    /\ \E expiresIn \in {8, 10} :
           browserCookies' = [browserCookies EXCEPT ![b] =
               Some([access_token |-> <<b, now>>, refresh_token |-> b,
                     expires_at |-> now + expiresIn - 2])]
    /\ call' = [fn |-> "ff-auth-callback", browser |-> b]
    /\ ret' = Some([status |-> 200, accessToken |-> Null, refreshed |-> FALSE])
    /\ UNCHANGED <<pipelineVars, now, authStore, cacheStore, cacheLog>>

\* ff-run, step 1 (ff-debug-leagues and ff-weekly-roast start the same way):
\* ensureAuth() of ff-blobs.mjs, 401 without a token
RequestFfRun(b) ==
    \E ok \in BOOLEAN, expiresIn \in {8, 10}, saveOk \in BOOLEAN :
        LET r == BlobsEnsureAuth(ok, expiresIn, saveOk)
        IN  /\ call' = AuthRequest("ff-run", b, "blobs", authStore, ok)
            /\ authStore' = r.store
            /\ ret' = Some([status |-> IF r.accessToken = Null THEN 401 ELSE 200,
                            accessToken |-> r.accessToken,
                            refreshed |-> r.refreshed])
            /\ UNCHANGED <<pipelineVars, now, browserCookies, cacheStore, cacheLog>>

\* ff-get-leagues: ensureAuth(cookieHeader) of ff-cookies.mjs, 401 without a
\* token ("unasked"); then getCurrentGameKey and getUserLeagues, which find
\* leagues, find none or throw.  Only the response that lists leagues carries
\* the Set-Cookie headers, and the browser stores what a response sets.
RequestFfGetLeagues(b) ==
    \E ok \in BOOLEAN, expiresIn \in {8, 10}, leagues \in {"found", "none", "error"} :
        LET r == CookieEnsureAuth(browserCookies[b], ok, expiresIn)
            status == IF r.accessToken = Null THEN 401
                      ELSE IF leagues = "error" THEN 500 ELSE 200
            setCookie == IF r.accessToken # Null /\ leagues = "found"
                         THEN r.cookies ELSE Null
        IN  /\ call' = [leagues |-> IF r.accessToken = Null THEN "unasked" ELSE leagues]
                        @@ AuthRequest("ff-get-leagues", b, "cookies",
                                       browserCookies[b], ok)
            /\ browserCookies' = IF setCookie = Null THEN browserCookies
                                 ELSE [browserCookies EXCEPT ![b] = setCookie]
            /\ ret' = Some([status |-> status,
                            accessToken |-> r.accessToken,
                            refreshed |-> r.refreshed,
                            setCookie |-> setCookie])
            /\ UNCHANGED <<pipelineVars, now, authStore, cacheStore, cacheLog>>

NextAuth ==
    \/ Tick
    \/ \E b \in Browsers : AuthCallback(b)
    \/ \E b \in Browsers : RequestFfRun(b)
    \/ \E b \in Browsers : RequestFfGetLeagues(b)

SpecAuth == InitAuth /\ [][NextAuth]_vars

\* a request handler that needs an access token has answered
AuthAnswered == ret # Null /\ call.fn \in {"ff-run", "ff-get-leagues"}

\* C16 (as claimed): the access token a request is served with comes from
\* that request's own cookies, or from refreshing them; no request is served
\* with tokens of the shared store.
C16_TokenFromOwnCookies ==
    (AuthAnswered /\ ret[1].accessToken # Null) =>
        /\ call.cookies # Null
        /\ \/ ret[1].accessToken = Field(call.cookies[1], "access_token")
           \/ /\ ret[1].refreshed
              /\ Field(call.cookies[1], "refresh_token") # Null
              /\ ret[1].accessToken
                     = Some(<<call.cookies[1].refresh_token, call.now>>)

\* the token record has the three fields ensureAuth uses
CompleteTokens(tokens) ==
    /\ tokens # Null
    /\ {"access_token", "refresh_token", "expires_at"} \subseteq DOMAIN tokens[1]

\* C17 (as claimed): either variant of ensureAuth returns null for missing or
\* incomplete tokens and for a failed refresh, the stored access token without
\* refreshing exactly when now + 5 minutes < expires_at, and otherwise the
\* access token of a refresh with the stored refresh token.
C17_EnsureAuthOutcome ==
    AuthAnswered =>
        LET tokens == call.tokens
            result == ret[1]
        IN  IF ~CompleteTokens(tokens) THEN result.accessToken = Null
            ELSE IF call.now + 5 < tokens[1].expires_at
            THEN result.accessToken = Some(tokens[1].access_token)
                 /\ ~result.refreshed
            ELSE IF call.refreshOk
            THEN result.accessToken = Some(<<tokens[1].refresh_token, call.now>>)
                 /\ result.refreshed
            ELSE result.accessToken = Null


---------------------------------------------------------------------------
(* The script bonus inside the composite score, in the run pipeline *)

\* the script bonus the claim states, in score units: it goes by the spread
\* seen from the player's own team (spread in halves of a point)
ClaimedScriptBonus(position, team, game) ==
    LET teamSpread == IF team = game.home_team THEN game.spread[1]
                      ELSE -game.spread[1]
    IN  CASE position = "RB" /\ teamSpread <= -9 -> 1680
          [] position \in {"WR", "TE"} /\ teamSpread >= 9 -> 1680
          [] position = "QB" /\ teamSpread < 0 -> 1120
          [] OTHER -> 0

\* C19 (as claimed): the composite score of a player whose game has a spread
\* and implied totals holds 0.35 times a script bonus of 0.6 for an RB whose
\* own team is favored by at least 4.5, 0.6 for a WR/TE whose own team is an
\* underdog by at least 4.5, 0.4 for a QB whose own team is favored, else 0,
\* for away-team players as for home-team players.
C19_ScriptBonusByOwnTeam ==
    \A i \in 1..Len(scoredPlayers) :
        LET p == scoredPlayers[i]
        IN  ("score" \in DOMAIN p /\ p.context # Null
             /\ p.context[1].spread # Null
             /\ p.context[1].implied_totals # Null) =>
                p.score = calculateZScore(p.efp, CohortEfps(p.position))
                          + (35 * ClaimedScriptBonus(p.position, p.team, p.context[1]))
                                \div 100
                          + (25 * calculateITBonus(p.context)) \div 100
                          + (20 * calculateInjuryPenalty(p.status)) \div 100


---------------------------------------------------------------------------
(* The props the run pipeline hands to the estimator *)

\* C20 (as claimed): a roster player with a game is scored from the market
\* fields getPlayerProps stored under exactly the player's name (a passing
\* yards line L adds L * passYards to efp, the ceiling bonus comes from the
\* stored probabilities), and a player with no entry by the fallback.
C20_PropsMatchedByName ==
    \A i \in 1..Len(scoredPlayers) :
        LET p == scoredPlayers[i]
        IN  p.context # Null =>
                IF p.name \in DOMAIN allProps
                THEN LET market == allProps[p.name].props
                     IN  /\ p.efp - p.ceiling_bonus
                                = expectedFantasyPoints(market, scoringRules,
                                                        p.position, p.context)
                         /\ p.ceiling_bonus
                                = applyMultiTDBonus(0, market, scoringRules, p.position)
                         /\ HasProp(market, "pass_yds")
                                => p.efp >= market.pass_yds * scoringRules.passYards * 300
                ELSE p.efp = applyFallback(p.position, p.context, scoringRules)



---------------------------------------------------------------------------
(* ff-blobs.mjs: the odds cache.  Time is in minutes. *)

\* (parseInt(process.env.CACHE_TTL_SECONDS) || 3600) * 1000 ms, the default
CACHE_TTL == 60

MaxCacheTicks == 3

CacheWeeks == {1, 2}

\* `lines-week-${week}.json`, `props-week-${week}.json`
CacheKey(type, week) == <<type, "-week-", week, ".json">>

\* JSON text of a nullable number: null, or the number
JsonNumber(x) == IF x = Null THEN [null |-> TRUE] ELSE [number |-> x[1]]

JsonNumberValue(j) == IF "null" \in DOMAIN j THEN Null ELSE Some(j.number)

\* JSON.stringify(lines): an array of game objects
JSONstringifyLines(games) ==
    [i \in 1..Len(games) |->
        [home_team |-> games[i].home_team,
         away_team |-> games[i].away_team,
         spread |-> JsonNumber(games[i].spread),
         total |-> JsonNumber(games[i].total),
         implied_totals |->
             IF games[i].implied_totals = Null
             THEN [null |-> TRUE]
             ELSE [object |-> games[i].implied_totals[1]]]]

JSONparseLines(text) ==
    [i \in 1..Len(text) |->
        [home_team |-> text[i].home_team,
         away_team |-> text[i].away_team,
         spread |-> JsonNumberValue(text[i].spread),
         total |-> JsonNumberValue(text[i].total),
         implied_totals |->
             IF "null" \in DOMAIN text[i].implied_totals
             THEN Null
             ELSE Some(text[i].implied_totals.object)]]

\* JSON.stringify(props): an object keyed by player name
JSONstringifyProps(props) ==
    [n \in DOMAIN props |->
        [name |-> props[n].name, team |-> JsonNumber(props[n].team),
         props |-> props[n].props]]

JSONparseProps(text) ==
    [n \in DOMAIN text |->
        [name |-> text[n].name, team |-> JsonNumberValue(text[n].team),
         props |-> text[n].props]]

JSONstringify(type, value) ==
    IF type = "lines" THEN JSONstringifyLines(value) ELSE JSONstringifyProps(value)

JSONparse(type, text) ==
    IF type = "lines" THEN JSONparseLines(text) ELSE JSONparseProps(text)

\* what getWeekLines and getPlayerProps hand to the cache
CachedLinesOptions ==
    { << GameLine("KC", "BUF", Some(-12), Some(84)),
         GameLine("DAL", "PHI", Some(12), Some(96)) >>,
      << GameLine("KC", "BUF", Null, Some(88)) >> }

CachedPropsOptions ==
    { ("Lamb" :> PropsEntry("Lamb", [rec_yds |-> 7050, receptions |-> 550]))
      @@ ("Cook" :> PropsEntry("Cook", [rush_yds |-> 6550, anytime_td_prob |-> 45])) }

\* setCachedLines / setCachedProps: the store after cacheStore.set
CacheSet(type, week, value) ==
    (CacheKey(type, week)
        :> [data |-> JSONstringify(type, value),
            metadata |-> [timestamp |-> now, week |-> week, type |-> type]])
    @@ cacheStore

\* the getter with an entry that expires at the TTL rather than after it
CachedValue_ExpiresAtTTL(type, week) ==
    LET cacheKey == CacheKey(type, week)
    IN  IF cacheKey \notin DOMAIN cacheStore
        THEN Null
        ELSE LET cached == cacheStore[cacheKey]
                 age == now - cached.metadata.timestamp
             IN  IF age >= CACHE_TTL
                 THEN Null
                 ELSE Some(JSONparse(type, cached.data))

\* getCachedLines / getCachedProps when the store answers
CachedValue(type, week) ==
    LET cacheKey == CacheKey(type, week)
    IN  IF cacheKey \notin DOMAIN cacheStore
        THEN Null
        ELSE LET cached == cacheStore[cacheKey]
                 age == now - cached.metadata.timestamp
             IN  IF age > CACHE_TTL
                 THEN Null
                 ELSE Some(JSONparse(type, cached.data))

InitCache ==
    /\ HandlerIdle
    /\ ServiceIdle
    /\ call = NoCall
    /\ ret = Null

\* Date.now() moves on
CacheTick ==
    /\ now < MaxCacheTicks * (CACHE_TTL \div 2)
    /\ now' = now + CACHE_TTL \div 2
    /\ UNCHANGED <<pipelineVars, call, ret, authStore, browserCookies, cacheStore,
                   cacheLog>>

\* the store may throw: the catch answers false and nothing is stored
SetCached(fn, type, week, value, storeOk) ==
    /\ call' = [fn |-> fn, week |-> week, now |-> now]
    /\ ret' = Some([value |-> Null, ok |-> storeOk])
    /\ cacheStore' = IF storeOk THEN CacheSet(type, week, value) ELSE cacheStore
    /\ cacheLog' = IF storeOk
                   THEN (CacheKey(type, week) :> [value |-> value, time |-> now])
                        @@ cacheLog
                   ELSE cacheLog
    /\ UNCHANGED <<pipelineVars, now, authStore, browserCookies>>

setCachedLines ==
    \E week \in CacheWeeks, games \in CachedLinesOptions, storeOk \in BOOLEAN :
        SetCached("setCachedLines", "lines", week, games, storeOk)

setCachedProps ==
    \E week \in CacheWeeks, props \in CachedPropsOptions, storeOk \in BOOLEAN :
        SetCached("setCachedProps", "props", week, props, storeOk)

\* the store may throw: the catch answers null
GetCached(fn, type, week, storeOk) ==
    /\ call' = [fn |-> fn, week |-> week, now |-> now]
    /\ ret' = Some([value |-> IF storeOk THEN CachedValue(type, week) ELSE Null,
                    ok |-> storeOk])
    /\ UNCHANGED <<pipelineVars, serviceVars>>

getCachedLines ==
    \E week \in CacheWeeks, storeOk \in BOOLEAN :
        GetCached("getCachedLines", "lines", week, storeOk)

getCachedProps ==
    \E week \in CacheWeeks, storeOk \in BOOLEAN :
        GetCached("getCachedProps", "props", week, storeOk)

NextCache ==
    \/ CacheTick
    \/ setCachedLines
    \/ setCachedProps
    \/ getCachedLines
    \/ getCachedProps

SpecCache == InitCache /\ [][NextCache]_vars

\* the request a getter has just answered
CacheAnswered ==
    /\ ret # Null
    /\ call # NoCall
    /\ call.fn \in {"getCachedLines", "getCachedProps"}

AnsweredKey ==
    CacheKey(IF call.fn = "getCachedLines" THEN "lines" ELSE "props", call.week)

\* C18: getCachedLines / getCachedProps return a value for week N only if a
\* value for week N was stored by the matching setter and its age (now minus
\* the time it was stored) is at most the TTL of one hour; the value returned
\* is the value last stored for that week; with no entry for the week, or
\* an older one, the answer is null.
C18_CacheFreshSameWeek ==
    CacheAnswered =>
        LET stored == AnsweredKey \in DOMAIN cacheLog
        IN  /\ ret[1].value # Null =>
                   /\ stored
                   /\ call.now - cacheLog[AnsweredKey].time <= CACHE_TTL
                   /\ ret[1].value = Some(cacheLog[AnsweredKey].value)
            /\ (~stored \/ call.now - cacheLog[AnsweredKey].time > CACHE_TTL)
                   => ret[1].value = Null
            /\ (stored /\ ret[1].ok
                  /\ call.now - cacheLog[AnsweredKey].time <= CACHE_TTL)
                   => ret[1].value = Some(cacheLog[AnsweredKey].value)

\* a hit at an age of exactly the TTL while the other week holds another value
C18_Witness ==
    /\ CacheAnswered
    /\ ret[1].value # Null
    /\ call.now - cacheLog[AnsweredKey].time = CACHE_TTL
    /\ \E week \in CacheWeeks :
           LET other == CacheKey(AnsweredKey[1], week)
           IN  /\ week # call.week
               /\ other \in DOMAIN cacheLog
               /\ cacheLog[other].value # cacheLog[AnsweredKey].value



---------------------------------------------------------------------------
(* fillLineup: who starts *)

\* the indices of the input players of one position
OfPosition(input, position) ==
    { i \in 1..Len(input) : input[i].position = position }

\* the input index of a lineup entry (the i-th input player is named i)
InputIndex(entry) == entry.name

\* C21: for each position P with required count c, fillLineup starts exactly
\* min(c, n_P) players of position P; no benched player of P has a strictly
\* higher score than a started player of P; a player is benched only if its
\* position's capacity is used up (or zero or absent); and of two players of
\* P with equal scores, one started and one benched, the started one comes
\* earlier in the input.
C21_StartsBestOfEachPosition ==
    (call.fn = "fillLineup" /\ ret # Null) =>
        LET input == call.scoredPlayers
            st == ret[1].starters
            bn == ret[1].bench
        IN  \A position \in { input[i].position : i \in 1..Len(input) } :
                LET c == RequiredCount(call.positionCounts, position)
                    n == Cardinality(OfPosition(input, position))
                    started == { i \in 1..Len(st) : st[i].position = position }
                    benched == { j \in 1..Len(bn) : bn[j].position = position }
                IN  /\ Cardinality(started) = Min(c, n)
                    /\ Cardinality(benched) = n - Min(c, n)
                    /\ benched # {} => Cardinality(started) = c
                    /\ \A i \in started, j \in benched :
                           /\ bn[j].score <= st[i].score
                           /\ bn[j].score = st[i].score
                                  => InputIndex(st[i]) < InputIndex(bn[j])

\* C21 witness: two players of one position with equal scores, the earlier
\* started and the later benched, behind a lower-scored player in the input
C21_Witness ==
    /\ call.fn = "fillLineup"
    /\ ret # Null
    /\ \E i \in 1..Len(ret[1].starters), j \in 1..Len(ret[1].bench) :
           /\ ret[1].starters[i].position = ret[1].bench[j].position
           /\ ret[1].starters[i].score = ret[1].bench[j].score
           /\ InputIndex(ret[1].starters[i]) = 2
           /\ InputIndex(ret[1].bench[j]) = 3
           /\ call.scoredPlayers[1].position = ret[1].bench[j].position
           /\ call.scoredPlayers[1].score < ret[1].bench[j].score



---------------------------------------------------------------------------
(* The handler's lineup and its flex suggestions *)

---------------------------------------------------------------------------
(* The order of the handler's stages *)

Has(record, k) == k \in DOMAIN record

\* the first loop's result for the whole roster
FullCohort == [j \in 1..Len(roster) |-> ScoredRecord(roster[j])]

\* C23: no composite score is set before efp and ceiling bonus are computed
\* for every roster player; tiers are assigned only after every score is
\* set, reasons after the tiers, and the lineup is filled after that; so
\* every score's z-score is taken over the complete cohort.
C23_StagesInOrder ==
    /\ \A i \in 1..Len(scoredPlayers) :
           Has(scoredPlayers[i], "score") =>
               /\ Len(scoredPlayers) = Len(roster)
               /\ \A j \in 1..Len(scoredPlayers) :
                      /\ Has(scoredPlayers[j], "efp")
                      /\ Has(scoredPlayers[j], "ceiling_bonus")
                      /\ scoredPlayers[j].efp = FullCohort[j].efp
               /\ scoredPlayers[i].score
                      = calculateSitStartScore(scoredPlayers[i].efp,
                            scoredPlayers[i].context, scoredPlayers[i],
                            scoringRules, NonByePlayers(FullCohort))
    /\ tieredPlayers # <<>> =>
           /\ Len(tieredPlayers) = Len(roster)
           /\ \A i \in 1..Len(scoredPlayers) : Has(scoredPlayers[i], "score")
           /\ \A i \in 1..Len(tieredPlayers) :
                  /\ Has(tieredPlayers[i], "tier")
                  /\ tieredPlayers[i].score = scoredPlayers[i].score
    /\ starters \o bench # <<>> =>
           /\ pc \in {"flex", "done"}
           /\ Len(starters) + Len(bench) = Len(roster)
           /\ \A i \in 1..Len(Output) :
                  /\ Has(Output[i], "tier")
                  /\ explain = "all" => Has(Output[i], "reasons")
    /\ pc \in {"efp", "score"} => tieredPlayers = <<>>
    /\ pc \in {"efp", "score", "tiers", "reasons"} => starters \o bench = <<>>
    /\ pc \in {"efp", "score", "tiers"} =>
           \A i \in 1..Len(tieredPlayers) : ~Has(tieredPlayers[i], "reasons")

\* C23 witness: the second loop is under way with two players of one position
\* in the cohort, the first scored and the other not yet
C23_Witness ==
    /\ pc = "score"
    /\ Len(scoredPlayers) >= 3
    /\ \E i, j \in 1..Len(scoredPlayers) :
           /\ i < j
           /\ Has(scoredPlayers[i], "score")
           /\ ~Has(scoredPlayers[j], "score")
           /\ ~scoredPlayers[i].is_bye_week
           /\ ~scoredPlayers[j].is_bye_week
           /\ scoredPlayers[i].position = scoredPlayers[j].position
           /\ scoredPlayers[i].efp # scoredPlayers[j].efp



---------------------------------------------------------------------------
(* The bye-week note in the handler's reasons *)

ByeNote == <<"BYE WEEK - DO NOT START">>

HasReason(player, reason) ==
    \E k \in 1..Len(player.reasons) : player.reasons[k] = reason

\* C24 (as claimed): once the reasons are generated, a player with no game
\* context carries the note 'BYE WEEK - DO NOT START', and a player with a
\* game context for the week does not.
C24_ByeNoteIffNoContext ==
    (explain = "all" /\ pc \in {"fill", "flex", "done"}) =>
        \A i \in 1..Len(tieredPlayers) :
            HasReason(tieredPlayers[i], ByeNote) <=> tieredPlayers[i].context = Null



---------------------------------------------------------------------------
(* Direct calls: getWeekLines' normalisation of one game *)

MaxBookmakers == 2

\* a bookmaker's markets: the home outcome's point of "spreads" and the Over
\* outcome's point of "totals" (halves), each there or not
BookmakerOptions ==
    { [spreads |-> s, totals |-> t] :
        s \in {Null, Some(-12), Some(0), Some(9)},
        t \in {Null, Some(88), Some(95)} }

BookmakerSeqs ==
    UNION { [1..n -> BookmakerOptions] : n \in 0..MaxBookmakers }

\* "if (market.key === k && !value) value = parseFloat(point)" over the first
\* n bookmakers: a value that is null or 0 is overwritten by the next one
RECURSIVE ExtractPoint(_, _, _)
ExtractPoint(bookmakers, k, n) ==
    IF n = 0 THEN Null
    ELSE LET prev == ExtractPoint(bookmakers, k, n - 1)
         IN  IF ~TruthyNum(prev) /\ bookmakers[n][k] # Null
             THEN bookmakers[n][k]
             ELSE prev

\* games.map(game => ...) for one game
NormaliseGame(home, away, bookmakers) ==
    GameLine(home, away,
             ExtractPoint(bookmakers, "spreads", Len(bookmakers)),
             ExtractPoint(bookmakers, "totals", Len(bookmakers)))

WeekLinesCalls ==
    { [fn |-> "getWeekLines", home_team |-> "KC", away_team |-> "BUF",
       bookmakers |-> b] : b \in BookmakerSeqs }

InitWeekLines ==
    /\ HandlerIdle
    /\ ServiceIdle
    /\ call \in WeekLinesCalls
    /\ ret = Null

CallGetWeekLines ==
    /\ call.fn = "getWeekLines"
    /\ ret = Null
    /\ ret' = Some(NormaliseGame(call.home_team, call.away_team, call.bookmakers))
    /\ UNCHANGED <<pipelineVars, serviceVars, call>>

NextWeekLines == CallGetWeekLines

SpecWeekLines == InitWeekLines /\ [][NextWeekLines]_vars

\* C25 (as claimed): a line with a spread and a total, a pick'em spread of 0
\* included, has homeIT = total/2 - spread/2 and awayIT = total/2 + spread/2
\* (so homeIT + awayIT = total and awayIT - homeIT = spread), and implied
\* totals are absent only when the spread or the total is unavailable.
\* (spread and total in halves, implied totals in quarters)
C25_ImpliedTotalsFromSpreadAndTotal ==
    (call.fn = "getWeekLines" /\ ret # Null) =>
        LET game == ret[1]
        IN  /\ (game.spread # Null /\ game.total # Null) =>
                   /\ game.implied_totals # Null
                   /\ game.implied_totals[1].homeIT = game.total[1] - game.spread[1]
                   /\ game.implied_totals[1].awayIT = game.total[1] + game.spread[1]
                   /\ game.implied_totals[1].homeIT + game.implied_totals[1].awayIT
                          = 2 * game.total[1]
                   /\ game.implied_totals[1].awayIT - game.implied_totals[1].homeIT
                          = 2 * game.spread[1]
            /\ game.implied_totals = Null =>
                   (game.spread = Null \/ game.total = Null)



---------------------------------------------------------------------------
(* Direct calls: calculateSitStartScore for a cohort of equal efps *)

MaxEqualCohort == 3

\* efps 13.2, 7.4, 6.55, 8.8 and 10
EqualEfpValues ==
    {EfpPts(132, 10), EfpPts(74, 10), EfpPts(655, 100), EfpPts(88, 10), EfpPts(10, 1)}

EqualCohortPlayer(name, position, status, efp) ==
    [name |-> name, position |-> position, team |-> "KC", status |-> status,
     efp |-> efp]

\* the player is the last of n players of its position, all of one efp; a
\* player of another position and another efp comes first
EqualCohortCalls ==
    { [fn |-> "calculateSitStartScore", efp |-> e, context |-> c,
       player |-> EqualCohortPlayer("p", pos, st, e),
       scoringRules |-> StandardRules,
       allPlayers |-> <<EqualCohortPlayer("k", "K", "", EfpPts(7, 1))>>
                      \o [i \in 1..n |-> EqualCohortPlayer("p", pos, st, e)]] :
        e \in EqualEfpValues, c \in Contexts \ {Null}, pos \in {"RB", "WR"},
        st \in {"", "Q"}, n \in 1..MaxEqualCohort }

InitEqualCohort ==
    /\ HandlerIdle
    /\ ServiceIdle
    /\ call \in EqualCohortCalls
    /\ ret = Null

NextEqualCohort == CallCalculateSitStartScore

SpecEqualCohort == InitEqualCohort /\ [][NextEqualCohort]_vars

\* the efps of the players of the call's position
CallCohortEfps ==
    LET cohort == SelectSeq(call.allPlayers,
                      LAMBDA p : p.position = call.player.position)
    IN  { cohort[i].efp : i \in 1..Len(cohort) }

\* C26 (as claimed): for a position cohort with a single member or with all
\* efp values equal the z-score is 0, so the member's composite score is
\* 0.35*scriptBonus + 0.25*itBonus + 0.20*injuryPenalty.
C26_EqualCohortScoresZero ==
    (call.fn = "calculateSitStartScore" /\ ret # Null /\ call.context # Null
     /\ Cardinality(CallCohortEfps) = 1) =>
        100 * ret[1]
            = 35 * calculateScriptBonus(call.player.position, call.context)
              + 25 * calculateITBonus(call.context)
              + 20 * calculateInjuryPenalty(call.player.status)



---------------------------------------------------------------------------
(* tryFlexSwaps: suggestions that share a bench player *)

\* the starters a bench player may replace
BeatenBy(b) == { s \in 1..Len(call.starters) : <<b, s>> \in QualifyingPairs }

\* the bench players that beat two or more FLEX starters by more than 1.0
MultiBeaters == { b \in 1..Len(call.bench) : Cardinality(BeatenBy(b)) >= 2 }

\* the suggestions that bring a bench player in
NamedIn(b) == { k \in 1..Len(ret[1]) : ret[1][k].in = call.bench[b].name }

---------------------------------------------------------------------------
(* The script reason and the script bonus *)

\* C28 (as claimed): once the reasons are generated, an RB carries
\* 'Run-heavy game script (favorite)', and a WR or TE carries 'Pass-heavy
\* game script (underdog)', exactly when its composite score included the
\* script bonus 0.6, for home-team and away-team players alike.
C28_ScriptReasonIffScriptBonus ==
    (explain = "all" /\ pc \in {"fill", "flex", "done"}) =>
        \A i \in 1..Len(tieredPlayers) :
            LET p == tieredPlayers[i]
                scored == p.context # Null
                            /\ calculateScriptBonus(p.position, p.context) = Sc(6, 10)
            IN  /\ p.position = "RB" =>
                       (HasReason(p, <<"Run-heavy game script (favorite)">>) <=> scored)
                /\ p.position \in {"WR", "TE"} =>
                       (HasReason(p, <<"Pass-heavy game script (underdog)">>) <=> scored)



---------------------------------------------------------------------------
(* ff-get-leagues: the refreshed tokens and the browser's cookies *)

\* C29 (as claimed): whenever the cookie-based ensureAuth refreshed the
\* tokens while serving an ff-get-leagues request, the response carries the
\* Set-Cookie headers with the new tokens, whether leagues were found, none
\* were found or an error occurred, and the browser then holds the new
\* tokens and no longer those the refresh replaced.
C29_RefreshedCookiesAlwaysSet ==
    (ret # Null /\ call.fn = "ff-get-leagues" /\ ret[1].refreshed) =>
        /\ ret[1].setCookie # Null
        /\ Some(ret[1].setCookie[1].access_token) = ret[1].accessToken
        /\ browserCookies[call.browser] = ret[1].setCookie
        /\ browserCookies[call.browser] # call.cookies



---------------------------------------------------------------------------
(* ensureAuth of ff-blobs.mjs, step by step: every await lets other requests *)
(* run, and all requests share the one record auth/yahoo.json               *)

Requests == {"q1", "q2"}

\* a request that has not called ensureAuth yet
NotStarted == [pc |-> "start", tokens |-> Null, newTokens |-> Null]

\* the requests in flight, and the token records whose refresh token the
\* token endpoint has already exchanged for a new one
BlobsCall(requests, replaced) ==
    [fn |-> "ensureAuth", requests |-> requests, replaced |-> replaced]

InitBlobsAuth ==
    /\ HandlerIdle
    /\ call = BlobsCall([q \in Requests |-> NotStarted], {})
    /\ ret = Null
    /\ now = 0
    /\ authStore \in StoredTokenOptions
    /\ browserCookies = <<>>
    /\ cacheStore = <<>>
    /\ cacheLog = <<>>

\* ensureAuth returns: the request is done, the result is what it answers
Return(q, request, accessToken, refreshed, replaced) ==
    /\ call' = BlobsCall([call.requests EXCEPT ![q] = [request EXCEPT !.pc = "done"]],
                         replaced)
    /\ ret' = Some([request |-> q, accessToken |-> accessToken,
                    refreshed |-> refreshed])

\* "const tokens = await getTokens()": the record is read from the store
GetTokens(q) ==
    /\ call.requests[q].pc \in {"start", "done"}
    /\ call' = BlobsCall([call.requests EXCEPT ![q] =
                              [pc |-> "loaded", tokens |-> authStore,
                               newTokens |-> Null]],
                         call.replaced)
    /\ UNCHANGED <<pipelineVars, serviceVars, ret>>

\* ensureAuth goes on with the record it read: null without tokens, the
\* stored access token while it is not expiring, else refreshTokens posts
\* the stored refresh token to the token endpoint
CheckExpiry(q) ==
    LET request == call.requests[q]
    IN  /\ request.pc = "loaded"
        /\ IF request.tokens = Null
           THEN Return(q, request, Null, FALSE, call.replaced)
           ELSE IF ExpiringSoon(Field(request.tokens[1], "expires_at"))
           THEN /\ call' = BlobsCall([call.requests EXCEPT ![q].pc = "refreshing"],
                                     call.replaced)
                /\ UNCHANGED ret
           ELSE Return(q, request, Field(request.tokens[1], "access_token"),
                       FALSE, call.replaced)
        /\ UNCHANGED <<pipelineVars, serviceVars>>

\* the token endpoint answers: null when the response is not ok, else the
\* new record, which replaces the one the refresh token came from
TokenResponse(q) ==
    LET request == call.requests[q]
    IN  /\ request.pc = "refreshing"
        /\ \E ok \in BOOLEAN, expiresIn \in {8, 10} :
               LET newTokens == refreshTokens(Field(request.tokens[1], "refresh_token"),
                                              ok, expiresIn)
               IN  IF newTokens = Null
                   THEN Return(q, request, Null, FALSE, call.replaced)
                   ELSE /\ call' = BlobsCall(
                               [call.requests EXCEPT ![q] =
                                    [pc |-> "saving", tokens |-> request.tokens,
                                     newTokens |-> newTokens]],
                               call.replaced \cup {request.tokens[1]})
                        /\ UNCHANGED ret
        /\ UNCHANGED <<pipelineVars, serviceVars>>

\* "await saveTokens(newTokens)": the record is written unless the store
\* throws, which saveTokens catches; refreshTokens returns the new record
\* either way and ensureAuth its access token
SaveTokens(q) ==
    LET request == call.requests[q]
    IN  /\ request.pc = "saving"
        /\ \E saveOk \in BOOLEAN :
               authStore' = IF saveOk THEN request.newTokens ELSE authStore
        /\ Return(q, request, Some(request.newTokens[1].access_token), TRUE,
                  call.replaced)
        /\ UNCHANGED <<pipelineVars, now, browserCookies, cacheStore, cacheLog>>

NextBlobsAuth ==
    \/ Tick
    \/ \E q \in Requests : GetTokens(q)
    \/ \E q \in Requests : CheckExpiry(q)
    \/ \E q \in Requests : TokenResponse(q)
    \/ \E q \in Requests : SaveTokens(q)

SpecBlobsAuth == InitBlobsAuth /\ [][NextBlobsAuth]_vars

\* C30 (as claimed): when ensureAuth of ff-blobs.mjs returns an access token
\* it obtained by a refresh, the record stored under auth/yahoo.json is the
\* refreshed record, also when saveTokens fails or when two requests run
\* ensureAuth at once; and no refresh is made with the refresh token of a
\* record that an earlier refresh has already replaced.
C30_StoreHoldsRefreshedRecord ==
    [][\A q \in Requests :
           /\ (call.requests[q].pc = "saving" /\ call'.requests[q].pc = "done")
                  => authStore' = call.requests[q].newTokens
           /\ (call.requests[q].pc = "refreshing" /\ call'.requests[q].pc = "saving")
                  => call.requests[q].tokens[1] \notin call.replaced]_vars


=============================================================================
